---------------------------- MODULE Spec2Model ----------------------------
(***************************************************************************)
(* StudentPairingTool: the pairing algorithm of src/models/pairing_model.py *)
(* (class PairingAlgorithm) and the loop that drives it (generate, update   *)
(* the group-of-three counters, append the session to the history).         *)
(*                                                                          *)
(* Student ids are the numbers 1..n (the code uses uuid strings and only    *)
(* ever compares ids for equality).  A student record is                    *)
(*   [id, track, times_in_group_of_three];                                  *)
(* a session record is [date, pairs], pairs being the list of the           *)
(* "student_ids" lists of its groups.  Python lists are sequences, the      *)
(* frozenset pair keys are sets.                                            *)
(*                                                                          *)
(* Scores are Python floats.  They are held here in units of 1/Scale, and   *)
(* float('inf') is the value Infinity, which absorbs addition.              *)
(*                                                                          *)
(* The application's views (src/views) that call the algorithm and keep the *)
(* class's sessions are modelled further down; app holds their fields and   *)
(* is NoApp in the specifications of the algorithm alone.                   *)
(*                                                                          *)
(* The specifications share the variables:                                  *)
(*   Spec          the simulation loop on a class of up to MaxStudents;     *)
(*   SpecFour      the loop on four students, the list shuffled per call;   *)
(*   SpecIndex     the constructor on histories drawn at the start;         *)
(*   SpecScore     the constructor on long histories, for the recency       *)
(*                 scores;                                                  *)
(*   SpecTracks    one call on two students per track, any stored counts;   *)
(*   SpecLarger    one call in larger mode on classes up to MaxLargerClass; *)
(*   SpecUntracked one call on records some of which have no "track" key;   *)
(*   SpecSteps     one call taken loop pass by loop pass (frame holds its   *)
(*                 local lists), with fairness, for termination;            *)
(*   SpecSix       the loop on a class that is always present;              *)
(*   SpecSwaps     pair-mode calls, pass by pass, on classes with stored    *)
(*                 counters, for the track swaps;                           *)
(*   SpecMerge     the singleton elimination on any list of groups;         *)
(*   SpecSaves     the views: attendance, generating, saving a session,     *)
(*                 editing a saved session and saving the edit;             *)
(*   SpecUndo      the views, the edit being undone instead of saved.       *)
(***************************************************************************)
EXTENDS Integers, Sequences, FiniteSets, TLC

VARIABLES
    students,           \* the caller's student records, in roster order
    previous_sessions,  \* the caller's history list
    alg,                \* the PairingAlgorithm object of the last run
    pairs,              \* what generate_pairings returned last
    track_preference,   \* the arguments of the last generate_pairings
    use_larger_groups,
    pc,                 \* where the driving loop stands
    frame,              \* the local lists of a generate_pairings call under way
    app                 \* the application's views: the class's attendance and
                        \* the history view's fields

vars == <<students, previous_sessions, alg, pairs, track_preference,
          use_larger_groups, pc, frame, app>>

\* the application's fields where no view has been opened
NoApp == <<>>

---------------------------------------------------------------------------
(* Bounds of the model *)

Range(s) == {s[i] : i \in DOMAIN s}

MaxStudents == 5      \* students of the class
MaxSessions == 2      \* sessions the history holds
MaxAbsent == 1        \* students drawn absent in one session
MaxLargerPool == 5    \* present students when larger groups are asked for
MaxRounds == 2        \* rounds of the four-student loop
IndexStudents == 4    \* students of the histories the indexer is run on
MaxIndexSessions == 3 \* sessions of those histories
MaxRecency == 22      \* the longest recency the scorer is run on
MaxCount == 2         \* the largest stored times_in_group_of_three drawn
MaxStoredCount == 3   \* the largest stored counter of the two-track class
MaxLargerClass == 8   \* students of the class grouped in larger mode
MaxUntracked == 5     \* students of the class whose records may lack "track"
MaxStepStudents == 5  \* students of the calls followed pass by pass
MaxStepSessions == 1  \* sessions of the history of those calls
MaxSixClass == 6      \* students of the class that is always present
MaxSixRounds == 2     \* sessions that class records
MaxSwapClass == 7     \* students of the classes whose track swaps are followed
MaxMergeClass == 5    \* students of the lists whose groups of one are merged
MaxMergeSessions == 1 \* sessions of the history of those classes

\* TRACKS of the simulation, cut to two
TRACKS == <<"X", "Y">>
Preferences == {"same", "different", "none"}

---------------------------------------------------------------------------
(* Sequence helpers (Python list operations) *)

\* a pop that takes the head whatever the position asked for
RemoveAt_head(s, i) == Tail(s)

\* list.pop(i) for a 1-based position: the list without that element
RemoveAt(s, i) == SubSeq(s, 1, i - 1) \o SubSeq(s, i + 1, Len(s))

\* a filter that keeps everything
Without_nothing(s, drop) == s

\* [x for x in s if x not in drop]
Without(s, drop) == SelectSeq(s, LAMBDA x : x \notin drop)

\* list.sort / sorted with a key (key[x] is the key of the element x):
\* stable; reverse=True keeps the original order of equal keys as well
RECURSIVE InsertSorted(_, _, _, _)
InsertSorted(sorted, x, key, descending) ==
    IF sorted = <<>> THEN <<x>>
    ELSE LET h == Head(sorted)
             before == IF descending THEN key[h] >= key[x] ELSE key[h] <= key[x]
         IN  IF before
             THEN <<h>> \o InsertSorted(Tail(sorted), x, key, descending)
             ELSE <<x>> \o sorted

RECURSIVE SortFrom(_, _, _, _)
SortFrom(s, i, key, descending) ==
    IF i = 0 THEN <<>>
    ELSE InsertSorted(SortFrom(s, i - 1, key, descending), s[i], key, descending)

SortByKey(s, key, descending) == SortFrom(s, Len(s), key, descending)

\* every ordering of a list (what random.shuffle can leave)
Shuffles(s) ==
    LET n == Len(s)
    IN  { [i \in 1..n |-> s[p[i]]] :
            p \in { q \in [1..n -> 1..n] : \A a, b \in 1..n : a # b => q[a] # q[b] } }

---------------------------------------------------------------------------
(* Scores *)

Scale == 10 * 100
Infinity == 2000000000

Plus(x, y) == IF x = Infinity \/ y = Infinity THEN Infinity ELSE x + y

\* a penalty that stops decaying
Decay_flat(k) == 10 * Scale

\* 10 * (0.9 ** k), in units of 1/Scale
RECURSIVE Decay(_)
Decay(k) == IF k = 0 THEN 10 * Scale ELSE (Decay(k - 1) * 9) \div 10

Abs(x) == IF x < 0 THEN -x ELSE x

---------------------------------------------------------------------------
(* PairingAlgorithm.__init__ and _preprocess_constraints *)

\* self.student_lookup[sid]: the dict comprehension keeps the last record
\* of an id
student_lookup(self, sid) ==
    LET i == CHOOSE k \in DOMAIN self.students :
                 /\ self.students[k].id = sid
                 /\ \A m \in (k + 1)..Len(self.students) : self.students[m].id # sid
    IN  self.students[i]

in_lookup(self, sid) == \E k \in DOMAIN self.students : self.students[k].id = sid

\* a store without the "if pair_key not in self.recent_pairs" test
IndexKey_overwriting(idx, pair_key, session_idx) ==
    [recent_pairs |-> (pair_key :> session_idx) @@ idx.recent_pairs,
     forbidden_pairs |-> IF session_idx = 0
                         THEN idx.forbidden_pairs \cup {pair_key}
                         ELSE idx.forbidden_pairs]

\* lines 47-52: one pair key of one group of the session at session_idx
IndexKey(idx, pair_key, session_idx) ==
    IF pair_key \in DOMAIN idx.recent_pairs THEN idx
    ELSE [recent_pairs |-> idx.recent_pairs @@ (pair_key :> session_idx),
          forbidden_pairs |-> IF session_idx = 0
                              THEN idx.forbidden_pairs \cup {pair_key}
                              ELSE idx.forbidden_pairs]

\* lines 42-52: the loops over i and j > i in one group
RECURSIVE IndexGroup(_, _, _, _, _)
IndexGroup(idx, student_ids, i, j, session_idx) ==
    IF i > Len(student_ids) THEN idx
    ELSE IF j > Len(student_ids)
         THEN IndexGroup(idx, student_ids, i + 1, i + 2, session_idx)
         ELSE IndexGroup(IndexKey(idx, {student_ids[i], student_ids[j]}, session_idx),
                         student_ids, i, j + 1, session_idx)

\* line 38: the groups of one session
RECURSIVE IndexSession(_, _, _, _)
IndexSession(idx, session_pairs, p, session_idx) ==
    IF p > Len(session_pairs) THEN idx
    ELSE IndexSession(IndexGroup(idx, session_pairs[p], 1, 2, session_idx),
                      session_pairs, p + 1, session_idx)

\* an enumerate(previous_sessions) that forgets reversed()
RECURSIVE IndexSessions_oldest_first(_, _, _)
IndexSessions_oldest_first(idx, sessions, session_idx) ==
    IF session_idx >= Len(sessions) THEN idx
    ELSE LET after == IndexSession(idx, sessions[session_idx + 1].pairs, 1, session_idx)
         IN  CASE after = after ->
                 IndexSessions_oldest_first(after, sessions, session_idx + 1)

\* line 37: enumerate(reversed(previous_sessions)); the index after one
\* session is worked out before the next session is taken up (the CASE makes
\* TLC evaluate it there, not nested in all the later sessions)
RECURSIVE IndexSessions(_, _, _)
IndexSessions(idx, sessions, session_idx) ==
    IF session_idx >= Len(sessions) THEN idx
    ELSE LET after == IndexSession(idx, sessions[Len(sessions) - session_idx].pairs,
                                   1, session_idx)
         IN  CASE after = after -> IndexSessions(after, sessions, session_idx + 1)

BuildIndex(sessions) ==
    IndexSessions([recent_pairs |-> <<>>, forbidden_pairs |-> {}], sessions, 0)

\* a penalty whose third step reaches one session further
RecencyPenalty_late(sessions_ago) ==
    IF sessions_ago = 1 THEN 100 * Scale
    ELSE IF sessions_ago = 2 THEN 50 * Scale
    ELSE IF sessions_ago < 6 THEN 25 * Scale
    ELSE Decay(sessions_ago - 5)

\* lines 84-94: the previous-pairing penalty
RecencyPenalty(sessions_ago) ==
    IF sessions_ago = 1 THEN 100 * Scale
    ELSE IF sessions_ago = 2 THEN 50 * Scale
    ELSE IF sessions_ago < 5 THEN 25 * Scale
    ELSE Decay(sessions_ago - 5)

\* a score without the forbidden-pair test of lines 78-80
_calculate_pair_score_unchecked(self, student_id1, student_id2) ==
    LET s1 == student_lookup(self, student_id1)
        s2 == student_lookup(self, student_id2)
        pair_key == {student_id1, student_id2}
    IN  (IF pair_key \in DOMAIN self.recent_pairs
         THEN RecencyPenalty(self.recent_pairs[pair_key])
         ELSE 0)
        + Abs(s1.times_in_group_of_three - s2.times_in_group_of_three) * 2 * Scale

\* a score that takes the difference of the counters with its sign
_calculate_pair_score_signed(self, student_id1, student_id2) ==
    LET s1 == student_lookup(self, student_id1)
        s2 == student_lookup(self, student_id2)
        pair_key == {student_id1, student_id2}
    IN  IF pair_key \in self.forbidden_pairs THEN Infinity
        ELSE (IF pair_key \in DOMAIN self.recent_pairs
              THEN RecencyPenalty(self.recent_pairs[pair_key])
              ELSE 0)
             + (s1.times_in_group_of_three - s2.times_in_group_of_three) * 2 * Scale

\* _calculate_pair_score, on an object whose index is built
_calculate_pair_score(self, student_id1, student_id2) ==
    LET s1 == student_lookup(self, student_id1)
        s2 == student_lookup(self, student_id2)
        pair_key == {student_id1, student_id2}
    IN  IF pair_key \in self.forbidden_pairs THEN Infinity
        ELSE (IF pair_key \in DOMAIN self.recent_pairs
              THEN RecencyPenalty(self.recent_pairs[pair_key])
              ELSE 0)
             + Abs(s1.times_in_group_of_three - s2.times_in_group_of_three) * 2 * Scale

\* lines 55-59: self.pair_scores
PairScores(self) ==
    LET ids == self.student_ids
        keys == {{ids[i], ids[j]} : i, j \in DOMAIN ids} \ {{ids[i]} : i \in DOMAIN ids}
    IN  [k \in keys |->
            LET i == CHOOSE a \in DOMAIN ids :
                        \E b \in (a + 1)..Len(ids) : {ids[a], ids[b]} = k
                j == CHOOSE b \in (i + 1)..Len(ids) : {ids[i], ids[b]} = k
            IN  _calculate_pair_score(self, ids[i], ids[j])]

\* lines 62-66: self.student_constraints (a defaultdict: absent means 0)
StudentConstraints(self) ==
    [sid \in {s \in UNION self.forbidden_pairs : in_lookup(self, s)} |->
        Cardinality({p \in self.forbidden_pairs : sid \in p})]

PairingAlgorithm(the_students, the_sessions) ==
    LET idx  == BuildIndex(the_sessions)
        base == [students          |-> the_students,
                 previous_sessions |-> the_sessions,
                 student_ids       |-> [i \in DOMAIN the_students |-> the_students[i].id],
                 forbidden_pairs   |-> idx.forbidden_pairs,
                 recent_pairs      |-> idx.recent_pairs]
        scored == base @@ [pair_scores |-> PairScores(base)]
    IN  scored @@ [student_constraints |-> StudentConstraints(base)]

---------------------------------------------------------------------------
(* Scoring helpers of the constructor *)

\* self.pair_scores.get(pair_key, 0)
GetScore(self, pair_key) ==
    IF pair_key \in DOMAIN self.pair_scores THEN self.pair_scores[pair_key] ELSE 0

\* self.student_constraints.get(sid, 0)
GetConstraints(self, sid) ==
    IF sid \in DOMAIN self.student_constraints THEN self.student_constraints[sid] ELSE 0

_get_track_bonus(self, student_id1, student_id2, preference) ==
    IF preference = "none" THEN 0
    ELSE LET same_track == student_lookup(self, student_id1).track
                             = student_lookup(self, student_id2).track
         IN  IF preference = "same"
             THEN (IF same_track THEN 0 ELSE 5 * Scale)
             ELSE (IF ~same_track THEN 0 ELSE 5 * Scale)

\* calculate_pair_score (lines 732-738): the stored score and the track bonus
calculate_pair_score(self, student_id1, student_id2, preference) ==
    Plus(GetScore(self, {student_id1, student_id2}),
         _get_track_bonus(self, student_id1, student_id2, preference))

\* a loop "if score < best_score: best = x" started at float('inf'): the
\* position of the first element of least score below Infinity, 0 if none
FirstBest(scores) ==
    LET ok == {i \in DOMAIN scores : scores[i] < Infinity}
    IN  IF ok = {} THEN 0
        ELSE CHOOSE i \in ok : \A k \in ok : scores[i] < scores[k]
                                              \/ (scores[i] = scores[k] /\ i <= k)

\* the positions (j, k), j < k, of a list of length n, in loop order
IndexPairs(n) ==
    LET S == {p \in (1..n) \X (1..n) : p[1] < p[2]}
    IN  SortByKey(
            LET RECURSIVE ToSeq(_)
                ToSeq(T) == IF T = {} THEN <<>>
                            ELSE LET x == CHOOSE y \in T : TRUE
                                 IN  <<x>> \o ToSeq(T \ {x})
            IN  ToSeq(S),
            [p \in S |-> (p[1] - 1) * n + p[2]], FALSE)

Max(S) == CHOOSE x \in S : \A y \in S : y <= x
Min(S) == CHOOSE x \in S : \A y \in S : x <= y

G3(self, sid) == student_lookup(self, sid).times_in_group_of_three

---------------------------------------------------------------------------
(* _find_best_triplet: <<>> stands for None *)

\* lines 143-175: the best candidate that starts with student1, or <<>>
TripletFrom(self, available_students, student1) ==
    LET remaining == SelectSeq(available_students, LAMBDA s : s # student1)
        ip == IndexPairs(Len(remaining))
        Forbidden(p) ==
            \/ {student1, remaining[p[1]]} \in self.forbidden_pairs
            \/ {student1, remaining[p[2]]} \in self.forbidden_pairs
            \/ {remaining[p[1]], remaining[p[2]]} \in self.forbidden_pairs
        cand == SelectSeq(ip, LAMBDA p : ~Forbidden(p))
        ScoreOf(p) ==
            LET student2 == remaining[p[1]]
                student3 == remaining[p[2]]
                g3_counts == {G3(self, student1), G3(self, student2), G3(self, student3)}
            IN  Plus(Plus(Plus(GetScore(self, {student1, student2}),
                               GetScore(self, {student1, student3})),
                          GetScore(self, {student2, student3})),
                     (Max(g3_counts) - Min(g3_counts)) * 5 * Scale)
        scores == [c \in DOMAIN cand |-> ScoreOf(cand[c])]
        \* pair_candidates.sort(key=score) is stable: the first of least score
        first == CHOOSE c \in DOMAIN cand :
                    \A d \in DOMAIN cand : scores[c] < scores[d]
                                           \/ (scores[c] = scores[d] /\ c <= d)
    IN  IF cand = <<>> THEN [triplet |-> <<>>, score |-> Infinity]
        ELSE [triplet |-> <<student1, remaining[cand[first][1]], remaining[cand[first][2]]>>,
              score |-> scores[first]]

RECURSIVE TripletLoop(_, _, _, _, _)
TripletLoop(self, available_students, by_g3, i, best) ==
    IF i > Len(by_g3) \/ i > 5 THEN best.triplet
    ELSE LET c == TripletFrom(self, available_students, by_g3[i])
         IN  TripletLoop(self, available_students, by_g3, i + 1,
                         IF c.triplet # <<>> /\ c.score < best.score THEN c ELSE best)

_find_best_triplet(self, available_students) ==
    IF Len(available_students) < 3 THEN <<>>
    ELSE LET key == [sid \in Range(available_students) |-> G3(self, sid)]
             students_by_g3_count == SortByKey(available_students, key, FALSE)
         IN  TripletLoop(self, available_students, students_by_g3_count, 1,
                         [triplet |-> <<>>, score |-> Infinity])

---------------------------------------------------------------------------
(* _build_pairs_incrementally *)

\* the search in which a forbidden pair rules the group out
BestPairToExtend_blocking(self, the_pairs, student_id) ==
    LET Cost(g) ==
            LET C(e) == IF {student_id, e} \in self.forbidden_pairs
                        THEN Infinity
                        ELSE GetScore(self, {student_id, e})
            IN  Plus(C(g[1]), C(g[2]))
        scores == [i \in DOMAIN the_pairs |->
                     IF Len(the_pairs[i]) = 2 THEN Cost(the_pairs[i]) ELSE Infinity]
    IN  FirstBest(scores)

\* lines 271-288 and 768-783: the pair (a group of exactly 2) to which
\* student_id is added at least cost, 0 if there is no group of 2
BestPairToExtend(self, the_pairs, student_id) ==
    LET Cost(g) ==
            LET C(e) == IF {student_id, e} \in self.forbidden_pairs
                        THEN 5000 * Scale
                        ELSE GetScore(self, {student_id, e})
            IN  Plus(C(g[1]), C(g[2]))
        scores == [i \in DOMAIN the_pairs |->
                     IF Len(the_pairs[i]) = 2 THEN Cost(the_pairs[i]) ELSE Infinity]
    IN  FirstBest(scores)

AppendTo(the_pairs, i, student_id) ==
    [the_pairs EXCEPT ![i] = Append(@, student_id)]

\* a pass that puts student1 back at the end of the list and goes on
BuildPass_putting_back(self, remaining, the_pairs, preference) ==
    [remaining |-> Append(Tail(remaining), Head(remaining)), pairs |-> the_pairs,
     stop |-> FALSE]

\* a pass whose first loop has no "continue": a forbidden candidate is
\* scored by its track term alone
BuildPass_no_skip(self, remaining, the_pairs, preference) ==
    IF Len(remaining) = 3
    THEN [remaining |-> <<>>, pairs |-> Append(the_pairs, remaining), stop |-> TRUE]
    ELSE
      LET student1 == Head(remaining)
          rest == Tail(remaining)
          scores == [k \in DOMAIN rest |->
                       IF {student1, rest[k]} \in self.forbidden_pairs
                       THEN _get_track_bonus(self, student1, rest[k], preference)
                       ELSE Plus(GetScore(self, {student1, rest[k]}),
                                 _get_track_bonus(self, student1, rest[k], preference))]
          best_partner == FirstBest(scores)
      IN  [remaining |-> RemoveAt(rest, best_partner),
           pairs |-> Append(the_pairs, <<student1, rest[best_partner]>>),
           stop |-> FALSE]

\* lines 196-259: one pass of the while loop, entered with two students or
\* more; stop says that the pass left the loop by break
BuildPass(self, remaining, the_pairs, preference) ==
    IF Len(remaining) = 3
    THEN [remaining |-> <<>>, pairs |-> Append(the_pairs, remaining), stop |-> TRUE]
    ELSE
      LET student1 == Head(remaining)
          rest == Tail(remaining)
          strict == [k \in DOMAIN rest |->
                       IF {student1, rest[k]} \in self.forbidden_pairs THEN Infinity
                       ELSE Plus(GetScore(self, {student1, rest[k]}),
                                 _get_track_bonus(self, student1, rest[k], preference))]
          best_partner == FirstBest(strict)
          relaxed == [k \in DOMAIN rest |->
                       IF {student1, rest[k]} \in self.forbidden_pairs THEN 10000 * Scale
                       ELSE Plus(GetScore(self, {student1, rest[k]}),
                                 _get_track_bonus(self, student1, rest[k], preference))]
          relaxed_best_partner == FirstBest(relaxed)
      IN  IF best_partner # 0
          THEN [remaining |-> RemoveAt(rest, best_partner),
                pairs |-> Append(the_pairs, <<student1, rest[best_partner]>>),
                stop |-> FALSE]
          ELSE IF relaxed_best_partner # 0
          THEN [remaining |-> RemoveAt(rest, relaxed_best_partner),
                pairs |-> Append(the_pairs, <<student1, rest[relaxed_best_partner]>>),
                stop |-> FALSE]
          ELSE [remaining |-> Append(rest, student1), pairs |-> the_pairs, stop |-> TRUE]

\* lines 195-259: the while loop; yields the lists remaining and pairs
RECURSIVE BuildLoop(_, _, _, _)
BuildLoop(self, remaining, the_pairs, preference) ==
    IF Len(remaining) < 2 THEN [remaining |-> remaining, pairs |-> the_pairs]
    ELSE LET r == BuildPass(self, remaining, the_pairs, preference)
         IN  IF r.stop THEN [remaining |-> r.remaining, pairs |-> r.pairs]
             ELSE BuildLoop(self, r.remaining, r.pairs, preference)

\* lines 302-305
RECURSIVE PairUp(_, _)
PairUp(remaining, the_pairs) ==
    IF Len(remaining) < 2 THEN [remaining |-> remaining, pairs |-> the_pairs]
    ELSE PairUp(Tail(Tail(remaining)),
                Append(the_pairs, <<remaining[1], remaining[2]>>))

\* lines 262-314: the students the loop left over
HandleRemaining(self, remaining, the_pairs) ==
    IF remaining = <<>> THEN the_pairs
    ELSE IF Len(remaining) = 1
    THEN IF the_pairs # <<>>
         THEN LET best_pair_idx == BestPairToExtend(self, the_pairs, remaining[1])
              IN  IF best_pair_idx # 0
                  THEN AppendTo(the_pairs, best_pair_idx, remaining[1])
                  ELSE Append(the_pairs, <<remaining[1]>>)
         ELSE Append(the_pairs, remaining)
    ELSE LET r == PairUp(remaining, the_pairs)
         IN  IF r.remaining # <<>>
             THEN IF r.pairs # <<>>
                  THEN AppendTo(r.pairs, 1, r.remaining[1])
                  ELSE Append(r.pairs, r.remaining)
             ELSE r.pairs

_build_pairs_incrementally(self, available_students, preference) ==
    LET key == [sid \in Range(available_students) |-> GetConstraints(self, sid)]
        sorted == SortByKey(available_students, key, TRUE)
        r == BuildLoop(self, sorted, <<>>, preference)
    IN  HandleRemaining(self, r.remaining, r.pairs)

---------------------------------------------------------------------------
(* _eliminate_singletons_normal_mode *)

\* lines 764-796: one singleton student is put back
MergeOne(self, the_pairs, student_id) ==
    LET best_pair_idx == BestPairToExtend(self, the_pairs, student_id)
        \* min(range(len(pairs)), key=len): the first smallest group
        smallest_idx == CHOOSE i \in DOMAIN the_pairs :
                           \A k \in DOMAIN the_pairs :
                               \/ Len(the_pairs[i]) < Len(the_pairs[k])
                               \/ (Len(the_pairs[i]) = Len(the_pairs[k]) /\ i <= k)
    IN  IF best_pair_idx # 0
        THEN AppendTo(the_pairs, best_pair_idx, student_id)
        ELSE IF the_pairs # <<>>
        THEN AppendTo(the_pairs, smallest_idx, student_id)
        ELSE Append(the_pairs, <<student_id>>)

\* lines 763-796: the singleton students are put back one at a time
RECURSIVE Redistribute(_, _, _)
Redistribute(self, the_pairs, singleton_students) ==
    IF singleton_students = <<>> THEN the_pairs
    ELSE Redistribute(self, MergeOne(self, the_pairs, Head(singleton_students)),
                      Tail(singleton_students))

\* reversed list
Reverse(s) == [i \in 1..Len(s) |-> s[Len(s) + 1 - i]]

\* lines 749 and 757-760: the students of the groups of one, taken from the
\* end of the list backwards
SingletonStudents(the_pairs) ==
    LET singletons == SelectSeq([i \in DOMAIN the_pairs |-> i],
                                LAMBDA i : Len(the_pairs[i]) = 1)
    IN  [k \in DOMAIN singletons |-> the_pairs[Reverse(singletons)[k]][1]]

\* lines 759-760: the list once the groups of one are popped
WithoutSingletons(the_pairs) == SelectSeq(the_pairs, LAMBDA g : Len(g) # 1)

_eliminate_singletons_normal_mode(self, the_pairs) ==
    IF SingletonStudents(the_pairs) = <<>> THEN the_pairs
    ELSE Redistribute(self, WithoutSingletons(the_pairs), SingletonStudents(the_pairs))

---------------------------------------------------------------------------
(* _optimize_track_preferences *)

_track_satisfaction_score(self, pair, preference) ==
    IF Len(pair) # 2 \/ preference = "none" THEN 0
    ELSE LET same_track == student_lookup(self, pair[1]).track
                             = student_lookup(self, pair[2]).track
         IN  IF preference = "same"
             THEN (IF same_track THEN 1 ELSE 0)
             ELSE (IF ~same_track THEN 1 ELSE 0)

_is_valid_pair(self, pair) ==
    \/ Len(pair) < 2
    \/ \A i, j \in DOMAIN pair : i < j => {pair[i], pair[j]} \notin self.forbidden_pairs

\* lines 352-355: members idx1 of pairs[i] and idx2 of pairs[j] exchanged
SwapMembers(the_pairs, i, j, idx1, idx2) ==
    [the_pairs EXCEPT ![i] = [@ EXCEPT ![idx1] = the_pairs[j][idx2]],
                      ![j] = [@ EXCEPT ![idx2] = the_pairs[i][idx1]]]

\* the test of line 366 with >= for >
SwapImproves_not_worse(self, the_pairs, i, j, idx1, idx2, preference) ==
    /\ Len(the_pairs[i]) = 2 /\ Len(the_pairs[j]) = 2
    /\ LET new == SwapMembers(the_pairs, i, j, idx1, idx2)
       IN  /\ _is_valid_pair(self, new[i]) /\ _is_valid_pair(self, new[j])
           /\ _track_satisfaction_score(self, new[i], preference)
                + _track_satisfaction_score(self, new[j], preference)
              >= _track_satisfaction_score(self, the_pairs[i], preference)
                + _track_satisfaction_score(self, the_pairs[j], preference)

\* lines 342-366: whether the swap (i, j, idx1, idx2) is made
SwapImproves(self, the_pairs, i, j, idx1, idx2, preference) ==
    /\ Len(the_pairs[i]) = 2 /\ Len(the_pairs[j]) = 2
    /\ LET new == SwapMembers(the_pairs, i, j, idx1, idx2)
       IN  /\ _is_valid_pair(self, new[i]) /\ _is_valid_pair(self, new[j])
           /\ _track_satisfaction_score(self, new[i], preference)
                + _track_satisfaction_score(self, new[j], preference)
              > _track_satisfaction_score(self, the_pairs[i], preference)
                + _track_satisfaction_score(self, the_pairs[j], preference)

\* lines 337-376: one pass makes the first improving swap in loop order
SwapPass(self, the_pairs, preference) ==
    LET n == Len(the_pairs)
        Rank(c) == ((c[1] * (n + 1) + c[2]) * 3 + c[3]) * 3 + c[4]
        good == {c \in (1..n) \X (1..n) \X (1..2) \X (1..2) :
                    /\ c[1] < c[2]
                    /\ SwapImproves(self, the_pairs, c[1], c[2], c[3], c[4], preference)}
        first == CHOOSE c \in good : \A d \in good : Rank(c) <= Rank(d)
    IN  IF good = {} THEN [improved |-> FALSE, pairs |-> the_pairs]
        ELSE [improved |-> TRUE,
              pairs |-> SwapMembers(the_pairs, first[1], first[2], first[3], first[4])]

RECURSIVE OptimizeLoop(_, _, _, _)
OptimizeLoop(self, the_pairs, preference, iteration) ==
    IF iteration >= 10 THEN the_pairs
    ELSE LET r == SwapPass(self, the_pairs, preference)
         IN  IF r.improved
             THEN OptimizeLoop(self, r.pairs, preference, iteration + 1)
             ELSE the_pairs

\* an optimizer that leaves the greedy pairs alone
_optimize_track_preferences_off(self, the_pairs, preference) == the_pairs

_optimize_track_preferences(self, the_pairs, preference) ==
    IF preference = "none" \/ Len(the_pairs) < 2 THEN the_pairs
    ELSE OptimizeLoop(self, the_pairs, preference, 0)

---------------------------------------------------------------------------
(* generate_pairings, pair mode (lines 429-459) *)

\* lines 431-448: the list the construction yields
PairModeBuilt(self, preference) ==
    LET need_triplet == Len(self.student_ids) % 2 = 1
        best_triplet == _find_best_triplet(self, self.student_ids)
    IN  IF need_triplet
        THEN IF best_triplet # <<>>
             THEN Append(_build_pairs_incrementally(
                             self, Without(self.student_ids, Range(best_triplet)),
                             preference),
                         best_triplet)
             ELSE _build_pairs_incrementally(self, self.student_ids, preference)
        ELSE _build_pairs_incrementally(self, self.student_ids, preference)

\* lines 451-454: the list before random.shuffle(pairs)
PairModeGroups(self, preference) ==
    _optimize_track_preferences(
        self, _eliminate_singletons_normal_mode(self, PairModeBuilt(self, preference)),
        preference)

---------------------------------------------------------------------------
(* _generate_larger_groups.  random.shuffle and the sampling of combinations *)
(* make the outcome a choice: each operator yields the set of what the code  *)
(* can produce.                                                              *)

\* the elements of s at the positions S, in list order (one combination of
\* itertools.combinations)
RECURSIVE AtPositions(_, _, _)
AtPositions(s, S, i) ==
    IF i > Len(s) THEN <<>>
    ELSE (IF i \in S THEN <<s[i]>> ELSE <<>>) \o AtPositions(s, S, i + 1)

\* _find_best_larger_group: the first max_attempts of the shuffled
\* combinations are tried and the first of least score among the valid ones
\* is returned; <<>> stands for None
_find_best_larger_group(self, available_students, group_size, preference) ==
    IF Len(available_students) < group_size THEN {<<>>}
    ELSE
      LET all_combinations ==
              {S \in SUBSET (1..Len(available_students)) : Cardinality(S) = group_size}
          total == Cardinality(all_combinations)
          max_attempts == IF total < 20 THEN total ELSE 20
          Comb(S) == AtPositions(available_students, S, 1)
          Valid(S) == \A a, b \in S :
                          a < b => {available_students[a], available_students[b]}
                                       \notin self.forbidden_pairs
          PairTerm(a, b) ==
              Plus(GetScore(self, {available_students[a], available_students[b]}),
                   _get_track_bonus(self, available_students[a], available_students[b],
                                    preference))
          RECURSIVE Sum(_)
          Sum(P) == IF P = {} THEN 0
                    ELSE LET q == CHOOSE x \in P : TRUE
                         IN  Plus(PairTerm(q[1], q[2]), Sum(P \ {q}))
          Score(S) == Sum({q \in S \X S : q[1] < q[2]})
          valid == {S \in all_combinations : Valid(S)}
          score == [S \in valid |-> Score(S)]
          Better(S) == {T \in valid : score[T] < score[S]}
      IN  {Comb(S) : S \in {T \in valid : total - Cardinality(Better(T)) >= max_attempts}}
          \cup (IF Cardinality(all_combinations \ valid) >= max_attempts
                THEN {<<>>} ELSE {})

\* _find_best_pair_from_list: <<>> stands for None
_find_best_pair_from_list(self, available_students, preference) ==
    IF Len(available_students) < 2 THEN <<>>
    ELSE LET ip == IndexPairs(Len(available_students))
             scores == [k \in DOMAIN ip |->
                 LET student1 == available_students[ip[k][1]]
                     student2 == available_students[ip[k][2]]
                 IN  IF {student1, student2} \in self.forbidden_pairs THEN Infinity
                     ELSE Plus(GetScore(self, {student1, student2}),
                               _get_track_bonus(self, student1, student2, preference))]
             best == FirstBest(scores)
         IN  IF best = 0 THEN <<>>
             ELSE <<available_students[ip[best][1]], available_students[ip[best][2]]>>

\* a plan of one group of 4 whatever the number of students
TargetGroupsOf4_one(total_students) == 1

\* lines 469-489
TargetGroupsOf4(total_students) ==
    IF total_students % 3 = 0 THEN 0
    ELSE IF total_students % 3 = 1 THEN 1
    ELSE IF total_students >= 8 THEN 2 ELSE 0

\* random.shuffle(remaining), line 493, makes the order of the list a free
\* choice.  A combination keeps the list order of its members and the blocks
\* that leave the list are disjoint, so choosing one order for the whole list
\* is the same as choosing an order for each block as it leaves: for each
\* group the two construction loops take, and for what they leave over.

\* lines 497-507 and 511-519: one pass of a construction loop; stop says
\* that no valid group was found and the pass left the loop by break
GroupPass(self, remaining, groups, group_size, preference) ==
    UNION { IF g # <<>>
            THEN { [remaining |-> Without(remaining, Range(g)),
                    groups |-> Append(groups, group), stop |-> FALSE] :
                   group \in Shuffles(g) }
            ELSE {[remaining |-> remaining, groups |-> groups, stop |-> TRUE]} :
            g \in _find_best_larger_group(self, remaining, group_size, preference) }

\* lines 495-507: the planned groups of 4
RECURSIVE GroupsOf4(_, _, _, _, _, _)
GroupsOf4(self, remaining, groups, created, target, preference) ==
    IF created < target /\ Len(remaining) >= 4
    THEN UNION { IF r.stop
                 THEN {[remaining |-> r.remaining, groups |-> r.groups]}
                 ELSE GroupsOf4(self, r.remaining, r.groups, created + 1, target,
                                preference) :
                 r \in GroupPass(self, remaining, groups, 4, preference) }
    ELSE {[remaining |-> remaining, groups |-> groups]}

\* lines 509-519: groups of 3 from the rest
RECURSIVE GroupsOf3(_, _, _, _)
GroupsOf3(self, remaining, groups, preference) ==
    IF Len(remaining) >= 3
    THEN UNION { IF r.stop
                 THEN {[remaining |-> r.remaining, groups |-> r.groups]}
                 ELSE GroupsOf3(self, r.remaining, r.groups, preference) :
                 r \in GroupPass(self, remaining, groups, 3, preference) }
    ELSE {[remaining |-> remaining, groups |-> groups]}

\* whether student_id has no forbidden pair with a member of group
CanAdd(self, group, student_id) ==
    \A k \in DOMAIN group : {student_id, group[k]} \notin self.forbidden_pairs

\* a search that takes the first group whether it fits or not
FirstGroup_unchecked(order, fits) == IF order = <<>> THEN 0 ELSE order[1]

\* the first group index of order that is in fits, 0 if none
FirstGroup(order, fits) ==
    LET ok == {k \in DOMAIN order : order[k] \in fits}
    IN  IF ok = {} THEN 0 ELSE order[Min(ok)]

\* lines 523-626: one pass of the loop over the students left over, entered
\* with one student or more
LeftoverPass(self, remaining, groups, preference) ==
    IF Len(remaining) = 1
    THEN LET key == [i \in DOMAIN groups |-> Len(groups[i])]
             sorted_groups == SortByKey([i \in DOMAIN groups |-> i], key, FALSE)
             Fits(i) == Len(groups[i]) < 4 /\ CanAdd(self, groups[i], remaining[1])
             group_idx == FirstGroup(sorted_groups, {i \in DOMAIN groups : Fits(i)})
         IN  IF group_idx # 0
             THEN {[remaining |-> <<>>,
                    groups |-> AppendTo(groups, group_idx, remaining[1])]}
             ELSE {[remaining |-> <<>>, groups |-> Append(groups, <<remaining[1]>>)]}
    ELSE IF Len(remaining) = 2
    THEN LET student1 == remaining[1]
             student2 == remaining[2]
             in_order == [i \in DOMAIN groups |-> i]
             FitsBoth(i) == /\ Len(groups[i]) = 2
                            /\ CanAdd(self, groups[i], student1)
                            /\ CanAdd(self, groups[i], student2)
                            /\ {student1, student2} \notin self.forbidden_pairs
             FitsOne(i) == Len(groups[i]) = 3 /\ CanAdd(self, groups[i], student1)
             both_idx == FirstGroup(in_order, {i \in DOMAIN groups : FitsBoth(i)})
             one_idx == FirstGroup(in_order, {i \in DOMAIN groups : FitsOne(i)})
         IN  IF both_idx # 0
             THEN {[remaining |-> <<>>,
                    groups |-> [groups EXCEPT ![both_idx] = @ \o <<student1, student2>>]]}
             ELSE IF one_idx # 0
             THEN {[remaining |-> <<student2>>,
                    groups |-> AppendTo(groups, one_idx, student1)]}
             ELSE {[remaining |-> <<>>, groups |-> Append(groups, <<student1, student2>>)]}
    ELSE { IF g # <<>>
           THEN [remaining |-> Without(remaining, Range(g)), groups |-> Append(groups, g)]
           ELSE LET pair == _find_best_pair_from_list(self, remaining, preference)
                IN  IF pair # <<>>
                    THEN [remaining |-> Without(remaining, Range(pair)),
                          groups |-> Append(groups, pair)]
                    ELSE [remaining |-> Tail(remaining),
                          groups |-> Append(groups, <<Head(remaining)>>)] :
           g \in _find_best_larger_group(self, remaining, 3, preference) }

\* lines 521-626: the students left over
RECURSIVE Leftovers(_, _, _, _)
Leftovers(self, remaining, groups, preference) ==
    IF remaining = <<>> THEN {groups}
    ELSE UNION { Leftovers(self, r.remaining, r.groups, preference) :
                 r \in LeftoverPass(self, remaining, groups, preference) }

\* lines 491-507: where the first pass of the loop of the groups of 4 can
\* leave the lists (going says whether the loop goes on from there)
FirstGroupOf4(self, preference) ==
    LET key == [sid \in Range(self.student_ids) |-> GetConstraints(self, sid)]
        sorted == SortByKey(self.student_ids, key, TRUE)
        target_groups_of_4 == TargetGroupsOf4(Len(self.student_ids))
        start == [remaining |-> sorted, groups |-> <<>>, going |-> FALSE]
    IN  IF 0 < target_groups_of_4 /\ Len(sorted) >= 4
        THEN { [remaining |-> r.remaining, groups |-> r.groups, going |-> ~r.stop] :
               r \in GroupPass(self, sorted, <<>>, 4, preference) }
        ELSE {start}

\* lines 495-631: what the call can return from there on
LargerGroupsFrom(self, first, preference) ==
    LET target_groups_of_4 == TargetGroupsOf4(Len(self.student_ids))
        after_4 == IF first.going
                   THEN GroupsOf4(self, first.remaining, first.groups, 1,
                                  target_groups_of_4, preference)
                   ELSE {[remaining |-> first.remaining, groups |-> first.groups]}
    IN  UNION { UNION { UNION { UNION { Shuffles(groups) :
                    groups \in Leftovers(self, remaining, r3.groups, preference) } :
                  remaining \in Shuffles(r3.remaining) } :
                r3 \in GroupsOf3(self, r4.remaining, r4.groups, preference) } :
              r4 \in after_4 }

\* the lists _generate_larger_groups can return
_generate_larger_groups(self, preference) ==
    UNION { LargerGroupsFrom(self, first, preference) :
            first \in FirstGroupOf4(self, preference) }

---------------------------------------------------------------------------
(* generate_pairings and update_group_of_three_counts *)

\* a generate_pairings whose first edge case takes two students as well
PairingResults_alone(self, preference, larger) ==
    IF Len(self.students) <= 2
    THEN {[i \in DOMAIN self.students |-> <<self.students[i].id>>]}
    ELSE IF larger
    THEN _generate_larger_groups(self, preference)
    ELSE Shuffles(PairModeGroups(self, preference))

\* lines 418-459: the lists generate_pairings can return
PairingResults(self, preference, larger) ==
    IF Len(self.students) <= 1
    THEN {[i \in DOMAIN self.students |-> <<self.students[i].id>>]}
    ELSE IF Len(self.students) = 2
    THEN {<< <<self.students[1].id, self.students[2].id>> >>}
    ELSE IF larger
    THEN _generate_larger_groups(self, preference)
    ELSE Shuffles(PairModeGroups(self, preference))

\* an update that counts the groups of every size
RECURSIVE update_group_of_three_counts_any_size(_, _)
update_group_of_three_counts_any_size(self, pairings) ==
    IF pairings = <<>> THEN self
    ELSE LET pair == Head(pairings)
             next == [self EXCEPT !.students =
                        [i \in DOMAIN @ |->
                            IF @[i].id \in Range(pair)
                            THEN [@[i] EXCEPT !.times_in_group_of_three = @ + 1]
                            ELSE @[i]]]
         IN  update_group_of_three_counts_any_size(next, Tail(pairings))

\* update_group_of_three_counts: the object after the call (line 717 stores
\* into the student records)
RECURSIVE update_group_of_three_counts(_, _)
update_group_of_three_counts(self, pairings) ==
    IF pairings = <<>> THEN self
    ELSE LET pair == Head(pairings)
             Bump(st) == IF \E k \in DOMAIN pair : pair[k] = st.id
                         THEN [st EXCEPT !.times_in_group_of_three =
                                  @ + Cardinality({k \in DOMAIN pair : pair[k] = st.id})]
                         ELSE st
             next == IF Len(pair) = 3
                     THEN [self EXCEPT !.students = [i \in DOMAIN @ |-> Bump(@[i])]]
                     ELSE self
         IN  update_group_of_three_counts(next, Tail(pairings))

\* update_group_counts (lines 740-742): the alias
update_group_counts(self, pairings) == update_group_of_three_counts(self, pairings)

\* student.get("times_in_group_of_four", 0), on the object's record of sid
times_in_group_of_four(self, sid) ==
    LET student == student_lookup(self, sid)
    IN  IF "times_in_group_of_four" \in DOMAIN student
        THEN student.times_in_group_of_four
        ELSE 0

\* a generate_pairings that counts the groups of three it returns
generate_pairings_counting(self, preference, larger) ==
    {[pairs |-> r, self |-> update_group_of_three_counts(self, r)] :
        r \in PairingResults(self, preference, larger)}

\* generate_pairings: each list it can return, with the object as the call
\* leaves it (no statement of the call stores into the object, its student
\* records or its session list)
generate_pairings(self, preference, larger) ==
    {[pairs |-> r, self |-> self] : r \in PairingResults(self, preference, larger)}

---------------------------------------------------------------------------
(* The driving loop: simulate_quarter of src/test_pairing_algorithm.py,      *)
(* one session at a time                                                     *)

\* generate_class(size): ids 1..size, the tracks dealt in turn, counters 0
generate_class(size) ==
    [i \in 1..size |-> [id |-> i, track |-> TRACKS[((i - 1) % Len(TRACKS)) + 1],
                        times_in_group_of_three |-> 0]]

\* no call under way
NoFrame == [remaining |-> <<>>, groups |-> <<>>, iteration |-> 0]

NoAlgorithm == [students |-> <<>>, previous_sessions |-> <<>>, student_ids |-> <<>>,
                forbidden_pairs |-> {}, recent_pairs |-> <<>>, pair_scores |-> <<>>,
                student_constraints |-> <<>>]

Init ==
    /\ app = NoApp
    /\ \E size \in 0..MaxStudents : students = generate_class(size)
    /\ previous_sessions = <<>>
    /\ alg = NoAlgorithm
    /\ pairs = <<>>
    /\ track_preference = "none"
    /\ use_larger_groups = FALSE
    /\ pc = "idle"
    /\ frame = NoFrame

\* the present students: those of the roster not drawn absent, in roster order
PresentLists ==
    { SelectSeq(students, LAMBDA st : st.id \notin absent) :
      absent \in { A \in SUBSET {students[i].id : i \in DOMAIN students} :
                     Cardinality(A) <= MaxAbsent } }

\* the caller's records after a call, the object holding the same records
WriteBack(roster, records) ==
    [i \in DOMAIN roster |->
        IF \E k \in DOMAIN records : records[k].id = roster[i].id
        THEN records[CHOOSE k \in DOMAIN records : records[k].id = roster[i].id]
        ELSE roster[i]]

\* PairingAlgorithm(present_students, previous_sessions).generate_pairings(...)
GeneratePairings ==
    /\ pc = "idle"
    /\ \E present_students \in PresentLists, preference \in Preferences, larger \in BOOLEAN :
         /\ larger => Len(present_students) <= MaxLargerPool
         /\ \E out \in generate_pairings(PairingAlgorithm(present_students, previous_sessions),
                                      preference, larger) :
            /\ pairs' = out.pairs
            /\ alg' = out.self
            /\ students' = WriteBack(students, out.self.students)
            /\ previous_sessions' = out.self.previous_sessions
            /\ track_preference' = preference
            /\ use_larger_groups' = larger
    /\ pc' = "generated"
    /\ UNCHANGED <<frame, app>>

\* pairing_algorithm.update_group_of_three_counts(pairs), and the counts
\* copied to the roster
UpdateGroupOfThreeCounts ==
    /\ pc = "generated"
    /\ alg' = update_group_of_three_counts(alg, pairs)
    /\ students' = WriteBack(students, alg'.students)
    /\ pc' = "counted"
    /\ UNCHANGED <<previous_sessions, pairs, track_preference, use_larger_groups>>
    /\ UNCHANGED <<frame, app>>

\* the session record built from the pairs and appended to the history (the
\* object holds the same list); the simulation records the sessions of its
\* own calls, generate_pairings(track_preference), which are in pair mode
AppendTheSession(limit) ==
    /\ pc \in {"generated", "counted"}
    /\ ~use_larger_groups
    /\ Len(previous_sessions) < limit
    /\ previous_sessions' = Append(previous_sessions,
                                   [date |-> Len(previous_sessions), pairs |-> pairs])
    \* line 21, previous_sessions or []: an empty list was replaced by a list
    \* of the object's own, which the caller's append does not reach
    /\ alg' = IF previous_sessions = <<>> THEN alg
              ELSE [alg EXCEPT !.previous_sessions = previous_sessions']
    /\ pc' = "idle"
    /\ UNCHANGED <<students, pairs, track_preference, use_larger_groups>>
    /\ UNCHANGED <<frame, app>>

AppendSession == AppendTheSession(MaxSessions)

Next == GeneratePairings \/ UpdateGroupOfThreeCounts \/ AppendSession

Spec == Init /\ [][Next]_vars

---------------------------------------------------------------------------
(* The same loop on a fixed roster of four students, all present, the list   *)
(* shuffled before each call as PairingScreen.generate_pairings does          *)

InitFour ==
    /\ app = NoApp
    /\ students = generate_class(4)
    /\ previous_sessions = <<>>
    /\ alg = NoAlgorithm
    /\ pairs = <<>>
    /\ track_preference = "none"
    /\ use_larger_groups = FALSE
    /\ pc = "idle"
    /\ frame = NoFrame

GenerateFour ==
    /\ pc = "idle"
    /\ \E present_students \in Shuffles(students), preference \in Preferences :
         \E out \in generate_pairings(PairingAlgorithm(present_students, previous_sessions),
                                      preference, FALSE) :
            /\ pairs' = out.pairs
            /\ alg' = out.self
            /\ students' = WriteBack(students, out.self.students)
            /\ previous_sessions' = out.self.previous_sessions
            /\ track_preference' = preference
            /\ use_larger_groups' = FALSE
    /\ pc' = "generated"
    /\ UNCHANGED <<frame, app>>

AppendRound == AppendTheSession(MaxRounds)

NextFour == GenerateFour \/ AppendRound

SpecFour == InitFour /\ [][NextFour]_vars

---------------------------------------------------------------------------
(* The constructor alone, on histories drawn at the start                     *)

\* a set of ids as the list of its members, ascending
RECURSIVE SetToSeq(_)
SetToSeq(S) == IF S = {} THEN <<>> ELSE <<Min(S)>> \o SetToSeq(S \ {Min(S)})

\* the group lists of one session record: at most two groups, disjoint, of
\* any size from 1 up
Groupings(ids) ==
    LET sets == SUBSET ids \ {{}}
    IN  {<<>>} \cup {<<SetToSeq(A)>> : A \in sets}
        \cup {<<SetToSeq(c[1]), SetToSeq(c[2])>> :
                 c \in {d \in sets \X sets : d[1] \cap d[2] = {} /\ Min(d[1]) < Min(d[2])}}

\* a history list: the session records in the order they were appended
Dated(h) == [p \in DOMAIN h |-> [date |-> p - 1, pairs |-> h[p]]]

InitIndex ==
    /\ app = NoApp
    /\ students = generate_class(IndexStudents)
    /\ \E k \in 0..MaxIndexSessions :
         \E h \in [1..k -> Groupings(1..IndexStudents)] : previous_sessions = Dated(h)
    /\ alg = NoAlgorithm
    /\ pairs = <<>>
    /\ track_preference = "none"
    /\ use_larger_groups = FALSE
    /\ pc = "idle"
    /\ frame = NoFrame

\* PairingAlgorithm(students, previous_sessions)
Construct ==
    /\ pc = "idle"
    /\ alg' = PairingAlgorithm(students, previous_sessions)
    /\ pc' = "built"
    /\ UNCHANGED <<students, previous_sessions, pairs, track_preference, use_larger_groups>>
    /\ UNCHANGED <<frame, app>>

NextBuild == Construct

SpecIndex == InitIndex /\ [][NextBuild]_vars

\* the history in which students 1 and 2 were paired once, recency sessions
\* before the end, the sessions after it being the two other pairings of
\* four students in turn
ScoreHistory(recency) ==
    Dated([p \in 1..(recency + 1) |->
              IF p = 1 THEN << <<1, 2>>, <<3, 4>> >>
              ELSE IF p % 2 = 0 THEN << <<1, 3>>, <<2, 4>> >>
              ELSE << <<1, 4>>, <<2, 3>> >>])

\* generate_class(4) with stored counters for students 1 and 2
ScoreClass(count1, count2) ==
    [generate_class(4) EXCEPT ![1].times_in_group_of_three = count1,
                              ![2].times_in_group_of_three = count2]

InitScore ==
    /\ app = NoApp
    /\ \E count1, count2 \in 0..MaxCount : students = ScoreClass(count1, count2)
    /\ \/ previous_sessions = <<>>
       \/ \E recency \in 0..MaxRecency : previous_sessions = ScoreHistory(recency)
    /\ alg = NoAlgorithm
    /\ pairs = <<>>
    /\ track_preference = "none"
    /\ use_larger_groups = FALSE
    /\ pc = "idle"
    /\ frame = NoFrame

SpecScore == InitScore /\ [][NextBuild]_vars

---------------------------------------------------------------------------
(* Properties of the groups generate_pairings returns *)

\* the student ids of a list of groups, one after the other
RECURSIVE Flatten(_)
Flatten(groups) == IF groups = <<>> THEN <<>> ELSE Head(groups) \o Flatten(Tail(groups))

\* how many groups of a list have the given size
GroupsOfSize(groups, size) == Cardinality({g \in DOMAIN groups : Len(groups[g]) = size})

\* the present students of the last call
present_ids == Range(alg.student_ids)

\* C1: the groups generate_pairings returns (pair mode or larger groups, any
\* history, any track preference) partition the present students: every
\* present id is in exactly one group exactly once, and no other id is in one.
C1_Partition ==
    LET flat == Flatten(pairs)
    IN  /\ Range(flat) = present_ids
        /\ \A a, b \in DOMAIN flat : a # b => flat[a] # flat[b]
        /\ Len(flat) = Len(alg.student_ids)

\* a larger-groups call on five students after a recorded session
C1_Witness ==
    /\ pc = "generated" /\ use_larger_groups
    /\ Len(alg.student_ids) = 5 /\ previous_sessions # <<>>
    /\ Len(Flatten(pairs)) = 5

\* C2: with at least 2 present students, in pair mode and with larger groups
\* alike, every group generate_pairings returns has at least 2 members.
C2_NoSingleton ==
    Len(alg.student_ids) >= 2 => \A g \in DOMAIN pairs : Len(pairs[g]) >= 2

\* C3: in pair mode, n >= 2 present students, n even, come back as n/2 groups
\* of 2; n >= 3, n odd, as one group of 3 and (n-3)/2 groups of 2.
C3_PairModeSizes ==
    LET n == Len(alg.student_ids)
    IN  (~use_larger_groups /\ n >= 2) =>
           IF n % 2 = 0
           THEN /\ Len(pairs) = n \div 2
                /\ GroupsOfSize(pairs, 2) = n \div 2
           ELSE /\ Len(pairs) = 1 + (n - 3) \div 2
                /\ GroupsOfSize(pairs, 3) = 1
                /\ GroupsOfSize(pairs, 2) = (n - 3) \div 2

\* a pair-mode call on five students with two sessions behind it
C3_Witness ==
    /\ pc = "generated" /\ ~use_larger_groups
    /\ Len(alg.student_ids) = 5 /\ Len(previous_sessions) = 2
    /\ GroupsOfSize(pairs, 3) = 1 /\ GroupsOfSize(pairs, 2) = 1

\* the pairs of ids one session record groups together
GroupedIn(session) ==
    UNION { {{session.pairs[g][i], session.pairs[g][j]} :
               i, j \in DOMAIN session.pairs[g]} : g \in DOMAIN session.pairs }

\* C4: four students, all present, pair mode, the history empty at first and
\* every result appended: no pair of a round was grouped together in the
\* session just before it, whatever the preferences and the input orders.
C4_NoImmediateRepeat ==
    (pc = "generated" /\ previous_sessions # <<>>) =>
        \A g \in DOMAIN pairs : \A i, j \in DOMAIN pairs[g] :
            i # j => {pairs[g][i], pairs[g][j]}
                        \notin GroupedIn(previous_sessions[Len(previous_sessions)])

\* a round asked for same-track pairs right after the session that had them
C4_Witness ==
    /\ pc = "generated" /\ Len(previous_sessions) = MaxRounds
    /\ track_preference = "same"
    /\ {1, 3} \in GroupedIn(previous_sessions[Len(previous_sessions)])
    /\ {1, 3} \notin GroupedIn([pairs |-> pairs])
    /\ Len(pairs) = 2

---------------------------------------------------------------------------
(* Properties of the index and of the scores *)

\* the positions of the sessions of a history that hold a and b in one group
SessionsWith(sessions, a, b) ==
    {p \in DOMAIN sessions :
        \E g \in DOMAIN sessions[p].pairs : {a, b} \subseteq Range(sessions[p].pairs[g])}

\* C5: after the index is built from a history list, a pair {a, b} has a
\* recency entry exactly when some session holds a and b in one group (of any
\* size); the recency is the number of sessions after the latest such session;
\* the forbidden set is the set of the pairs of recency 0.
C5_Index ==
    pc = "built" =>
        /\ \A a, b \in 1..IndexStudents : a # b =>
              LET with == SessionsWith(previous_sessions, a, b)
              IN  /\ ({a, b} \in DOMAIN alg.recent_pairs) <=> (with # {})
                  /\ with # {} =>
                        alg.recent_pairs[{a, b}] = Len(previous_sessions) - Max(with)
        /\ \A k \in DOMAIN alg.recent_pairs : Cardinality(k) = 2
        /\ alg.forbidden_pairs = {k \in DOMAIN alg.recent_pairs : alg.recent_pairs[k] = 0}

\* a three-session history: a pair grouped in the first two sessions and not
\* in the last, a group of three or more in one of them
C5_Witness ==
    /\ pc = "built" /\ Len(previous_sessions) = 3
    /\ SessionsWith(previous_sessions, 1, 2) = {1, 2}
    /\ alg.recent_pairs[{1, 2}] = 1
    /\ \E p \in DOMAIN previous_sessions : \E g \in DOMAIN previous_sessions[p].pairs :
          Len(previous_sessions[p].pairs[g]) >= 3
    /\ alg.forbidden_pairs # {}

\* C6: the index and the forbidden set do not depend on the order in which
\* the session records are supplied: the same records (same dates, same
\* groups) in another list order give the same index and forbidden set.
C6_OrderIndependent ==
    pc = "built" =>
        \A reordered \in Shuffles(previous_sessions) :
            /\ BuildIndex(reordered).recent_pairs = alg.recent_pairs
            /\ BuildIndex(reordered).forbidden_pairs = alg.forbidden_pairs

\* C7: constructing a PairingAlgorithm and calling generate_pairings leave the
\* history list, its session records and the student records (the counters
\* included) as they were, so the index built again from the history is the
\* index the object holds; a step that changes a student record is a step of
\* update_group_of_three_counts.  (A step from "idle" to "generated" is the
\* constructor and generate_pairings, one from "generated" to "counted" is
\* update_group_of_three_counts.)
C7_Frame ==
    [][ /\ (pc = "idle" /\ pc' = "generated") =>
             /\ students' = students
             /\ previous_sessions' = previous_sessions
             /\ alg'.previous_sessions = previous_sessions
             /\ \A i \in DOMAIN alg'.students :
                    \E k \in DOMAIN students : alg'.students[i] = students[k]
             /\ BuildIndex(previous_sessions').recent_pairs = alg'.recent_pairs
             /\ BuildIndex(previous_sessions').forbidden_pairs = alg'.forbidden_pairs
        /\ students' # students => (pc = "generated" /\ pc' = "counted")
      ]_vars

\* a call that returned a group of three on a two-session history whose
\* students had been in a group of three before
C7_Witness ==
    /\ pc = "generated" /\ Len(previous_sessions) = 2
    /\ GroupsOfSize(pairs, 3) = 1
    /\ \E i \in DOMAIN alg.students : alg.students[i].times_in_group_of_three > 0
    /\ alg.forbidden_pairs # {}

\* the score of students 1 and 2, the students as they stand, had the two
\* last been grouped together the given number of sessions ago
ScoreAtRecency(recency) ==
    _calculate_pair_score(PairingAlgorithm(students, ScoreHistory(recency)), 1, 2)

\* the pairs of present students
PresentPairs == {{a, b} : a, b \in present_ids} \ {{a} : a \in present_ids}

\* the two ids of a pair, as calculate_pair_score takes them
First(pair) == Min(pair)
Second(pair) == Max(pair)

\* C8: counters and attributes of the two students held fixed, their score at
\* recency 1 is strictly greater than at recency 5, and that strictly greater
\* than at recency 20.
C8_Score_1_5_20 ==
    pc = "built" =>
        /\ ScoreAtRecency(1) > ScoreAtRecency(5)
        /\ ScoreAtRecency(5) > ScoreAtRecency(20)
        /\ {1, 2} \in DOMAIN alg.recent_pairs =>
              alg.pair_scores[{1, 2}] = ScoreAtRecency(alg.recent_pairs[{1, 2}])

\* the object built on the history in which 1 and 2 met 20 sessions ago, their
\* stored counters unequal
C8_Witness ==
    /\ pc = "built"
    /\ {1, 2} \in DOMAIN alg.recent_pairs /\ alg.recent_pairs[{1, 2}] = 20
    /\ G3(alg, 1) # G3(alg, 2)
    /\ alg.pair_scores[{1, 2}] < 10 * Scale

\* C9: the score strictly decreases as recency increases: for all recencies
\* 1 <= r1 < r2, all else equal, the score at r1 is strictly greater than the
\* score at r2.
C9_StrictlyDecreasing ==
    pc = "built" =>
        LET score == [r \in 1..MaxRecency |-> ScoreAtRecency(r)]
        IN  \A r1, r2 \in 1..MaxRecency : r1 < r2 => score[r1] > score[r2]

\* C9, amended: the score never increases as recency increases, and the only
\* two recencies 1 <= r1 < r2 of equal score are 3 and 4.
C9_DecreasingButThreeFour ==
    pc = "built" =>
        LET score == [r \in 1..MaxRecency |-> ScoreAtRecency(r)]
        IN  \A r1, r2 \in 1..MaxRecency : r1 < r2 =>
                /\ score[r1] >= score[r2]
                /\ score[r1] = score[r2] => (r1 = 3 /\ r2 = 4)

\* the object built on the history in which 1 and 2 met 4 sessions ago: its
\* score is the score at recency 3
C9_Witness ==
    /\ pc = "built"
    /\ {1, 2} \in DOMAIN alg.recent_pairs /\ alg.recent_pairs[{1, 2}] = 4
    /\ alg.pair_scores[{1, 2}] = ScoreAtRecency(3)

\* C10: for a forbidden pair of present students calculate_pair_score is,
\* under every track preference, the infeasible score: strictly greater than
\* the score of every pair of present students that is not forbidden.
C10_ForbiddenScore ==
    pc = "built" =>
        \A p \in PresentPairs \cap alg.forbidden_pairs : \A preference \in Preferences :
            /\ calculate_pair_score(alg, First(p), Second(p), preference) = Infinity
            /\ \A q \in PresentPairs \ alg.forbidden_pairs : \A other \in Preferences :
                  calculate_pair_score(alg, First(q), Second(q), other)
                      < calculate_pair_score(alg, First(p), Second(p), preference)

\* students 1 and 3 were paired in the last session; students 1 and 2, paired
\* one session before and their counters the furthest apart, are not forbidden
C10_Witness ==
    /\ pc = "built"
    /\ {1, 3} \in alg.forbidden_pairs
    /\ {1, 2} \in DOMAIN alg.recent_pairs /\ alg.recent_pairs[{1, 2}] = 1
    /\ Abs(G3(alg, 1) - G3(alg, 2)) = MaxCount
    /\ calculate_pair_score(alg, 1, 2, "same") < calculate_pair_score(alg, 1, 3, "same")

---------------------------------------------------------------------------
(* A class of four, two students per track, with stored counters: the       *)
(* generate_pairings handler of the pairing screen with preference "same"   *)

TwoPerTrack ==
    { [i \in 1..4 |-> [id |-> i, track |-> track[i],
                       times_in_group_of_three |-> count[i]]] :
        track \in { t \in [1..4 -> Range(TRACKS)] :
                      Cardinality({i \in 1..4 : t[i] = TRACKS[1]}) = 2 },
        count \in [1..4 -> 0..MaxStoredCount] }

InitTracks ==
    /\ app = NoApp
    /\ students \in TwoPerTrack
    /\ previous_sessions = <<>>
    /\ alg = NoAlgorithm
    /\ pairs = <<>>
    /\ track_preference = "none"
    /\ use_larger_groups = FALSE
    /\ pc = "idle"
    /\ frame = NoFrame

\* random.shuffle(present_students), then generate_pairings("same", False)
GenerateSame ==
    /\ pc = "idle"
    /\ \E present_students \in Shuffles(students) :
         \E out \in generate_pairings(PairingAlgorithm(present_students, previous_sessions),
                                      "same", FALSE) :
            /\ pairs' = out.pairs
            /\ alg' = out.self
    /\ track_preference' = "same"
    /\ pc' = "generated"
    /\ UNCHANGED <<students, previous_sessions, use_larger_groups>>
    /\ UNCHANGED <<frame, app>>

NextTracks == GenerateSame

SpecTracks == InitTracks /\ [][NextTracks]_vars

---------------------------------------------------------------------------
(* A class grouped in larger mode on an empty history: the generate_pairings *)
(* handler of the pairing screen with the larger-groups box checked          *)

InitLarger ==
    /\ app = NoApp
    /\ \E size \in 3..MaxLargerClass : students = generate_class(size)
    /\ previous_sessions = <<>>
    /\ alg = NoAlgorithm
    /\ pairs = <<>>
    /\ track_preference = "none"
    /\ use_larger_groups = FALSE
    /\ pc = "idle"
    /\ frame = NoFrame

\* generate_pairings(preference, True) on three students or more (line 427
\* hands over to _generate_larger_groups); the first group of 4 drawn is
\* picked here, the call goes on from it
GenerateLarger ==
    /\ pc = "idle"
    /\ Len(students) >= 3
    /\ \E preference \in Preferences :
         LET self == PairingAlgorithm(students, previous_sessions)
         IN  \E first \in FirstGroupOf4(self, preference) :
               \E groups \in LargerGroupsFrom(self, first, preference) :
                  /\ pairs' = groups
                  /\ alg' = self
                  /\ track_preference' = preference
    /\ use_larger_groups' = TRUE
    /\ pc' = "generated"
    /\ UNCHANGED <<students, previous_sessions>>
    /\ UNCHANGED <<frame, app>>

NextLarger == GenerateLarger

SpecLarger == InitLarger /\ [][NextLarger]_vars

---------------------------------------------------------------------------
(* Student records without the "track" key.  s1["track"] (lines 110, 387)   *)
(* raises KeyError on such a record; nothing in the module catches it, so   *)
(* the call ends there.                                                      *)

has_track(self, sid) == "track" \in DOMAIN student_lookup(self, sid)

\* lines 191-214: the students whose "track" the first pass of the while
\* loop of _build_pairs_incrementally reads in _get_track_bonus: student1
\* and every candidate that is not forbidden
FirstPassTrackReads(self, available_students) ==
    LET key == [sid \in Range(available_students) |-> GetConstraints(self, sid)]
        remaining == SortByKey(available_students, key, TRUE)
        student1 == remaining[1]
        candidates == {remaining[k] : k \in 2..Len(remaining)}
        scored == {student2 \in candidates :
                      {student1, student2} \notin self.forbidden_pairs}
    IN  IF Len(remaining) >= 2 /\ Len(remaining) # 3 /\ scored # {}
        THEN {student1} \cup scored
        ELSE {}

\* whether generate_pairings(preference) ends in KeyError on an object
\* without forbidden pairs: there the first pass scores every student the
\* loop is given, and nothing after it reads the track of another student
RaisesKeyError(self, preference) ==
    LET need_triplet == Len(self.student_ids) % 2 = 1
        best_triplet == _find_best_triplet(self, self.student_ids)
        available == IF need_triplet /\ best_triplet # <<>>
                     THEN Without(self.student_ids, Range(best_triplet))
                     ELSE self.student_ids
    IN  /\ Len(self.students) >= 3
        /\ preference # "none"
        /\ \E sid \in FirstPassTrackReads(self, available) : ~has_track(self, sid)

\* the class of generate_class, the "track" key left out of some records
UntrackedClasses ==
    { [i \in 1..size |->
          IF i \in untracked
          THEN [id |-> i, times_in_group_of_three |-> 0]
          ELSE generate_class(size)[i]] :
        size \in 3..MaxUntracked, untracked \in SUBSET (1..MaxUntracked) }

InitUntracked ==
    /\ app = NoApp
    /\ students \in UntrackedClasses
    /\ previous_sessions = <<>>
    /\ alg = NoAlgorithm
    /\ pairs = <<>>
    /\ track_preference = "none"
    /\ use_larger_groups = FALSE
    /\ pc = "idle"
    /\ frame = NoFrame

\* PairingAlgorithm(students, previous_sessions).generate_pairings(preference)
GenerateUntracked ==
    /\ pc = "idle"
    /\ \E preference \in Preferences :
         LET self == PairingAlgorithm(students, previous_sessions)
         IN  /\ track_preference' = preference
             /\ IF RaisesKeyError(self, preference)
                THEN /\ pairs' = <<>>
                     /\ alg' = self
                     /\ pc' = "KeyError"
                ELSE \E out \in generate_pairings(self, preference, FALSE) :
                        /\ pairs' = out.pairs
                        /\ alg' = out.self
                        /\ pc' = "generated"
    /\ UNCHANGED <<students, previous_sessions, use_larger_groups>>
    /\ UNCHANGED <<frame, app>>

NextUntracked == GenerateUntracked

SpecUntracked == InitUntracked /\ [][NextUntracked]_vars

---------------------------------------------------------------------------
(* One generate_pairings call followed pass by pass: a step is one pass of  *)
(* a loop of the call, or the statements between two loops.  frame holds    *)
(* the local lists remaining and pairs (groups in larger mode) and the pass *)
(* counter of the swap loop; pc names the loop the call stands at.  The     *)
(* interpreter runs the next statement of a call under way, which is the    *)
(* weak fairness of the steps.  The call is made on an object just built.   *)

\* the sort without reverse=True
ByConstraints_ascending(self, ids) ==
    SortByKey(ids, [sid \in Range(ids) |-> GetConstraints(self, sid)], FALSE)

\* remaining.sort(key=constraints, reverse=True), lines 192 and 492
ByConstraints(self, ids) ==
    SortByKey(ids, [sid \in Range(ids) |-> GetConstraints(self, sid)], TRUE)

\* lines 431-437: the triplet set aside in pair mode, <<>> if there is none
TripletSetAside(self) ==
    IF Len(self.student_ids) % 2 = 1
    THEN _find_best_triplet(self, self.student_ids)
    ELSE <<>>

InitSteps ==
    /\ app = NoApp
    /\ \E size \in 0..MaxStepStudents :
         /\ students = generate_class(size)
         /\ \E k \in 0..MaxStepSessions :
              \E h \in [1..k -> Groupings(1..size)] : previous_sessions = Dated(h)
    /\ alg = PairingAlgorithm(students, previous_sessions)
    /\ pairs = <<>>
    /\ track_preference = "none"
    /\ use_larger_groups = FALSE
    /\ pc = "built"
    /\ frame = NoFrame

\* lines 418-437 and 466-493, on the object built: the edge cases and the
\* statements up to the first loop
Start(preference, larger) ==
    /\ pc = "built"
    /\ track_preference' = preference
    /\ use_larger_groups' = larger
    /\ IF Len(alg.students) <= 2
       THEN /\ pairs' \in PairingResults(alg, preference, larger)
            /\ frame' = NoFrame
            /\ pc' = "returned"
       ELSE /\ pairs' = <<>>
            /\ frame' =
                 [NoFrame EXCEPT !.remaining =
                     IF larger THEN ByConstraints(alg, alg.student_ids)
                     ELSE ByConstraints(alg, Without(alg.student_ids,
                                                    Range(TripletSetAside(alg))))]
            /\ pc' = IF larger THEN "groups_of_4" ELSE "pairs"
    /\ UNCHANGED app
    /\ UNCHANGED <<students, previous_sessions, alg>>

StartCall == \E preference \in Preferences, larger \in BOOLEAN : Start(preference, larger)

\* lines 195-259: the test of the while loop and one pass of it
BuildStep ==
    /\ pc = "pairs"
    /\ IF Len(frame.remaining) >= 2
       THEN LET r == BuildPass(alg, frame.remaining, frame.groups, track_preference)
            IN  /\ frame' = [frame EXCEPT !.remaining = r.remaining, !.groups = r.pairs]
                /\ pc' = IF r.stop THEN "rest" ELSE "pairs"
       ELSE /\ frame' = frame
            /\ pc' = "rest"
    /\ UNCHANGED app
    /\ UNCHANGED <<students, previous_sessions, alg, pairs, track_preference,
                   use_larger_groups>>

\* lines 261-316, 437 and 448: the students the loop left are placed, the
\* triplet is appended, the singletons are folded in
FinishPairs ==
    /\ pc = "rest"
    /\ LET built == HandleRemaining(alg, frame.remaining, frame.groups)
           best_triplet == TripletSetAside(alg)
           all == IF best_triplet # <<>> THEN Append(built, best_triplet) ELSE built
       IN  frame' = [remaining |-> <<>>,
                     groups |-> _eliminate_singletons_normal_mode(alg, all),
                     iteration |-> 0]
    /\ pc' = "swaps"
    /\ UNCHANGED app
    /\ UNCHANGED <<students, previous_sessions, alg, pairs, track_preference,
                   use_larger_groups>>

\* lines 325-376: the test of the swap loop and one pass of it
SwapStep ==
    /\ pc = "swaps"
    /\ IF track_preference = "none" \/ Len(frame.groups) < 2 \/ frame.iteration >= 10
       THEN /\ frame' = frame
            /\ pc' = "shuffle"
       ELSE LET r == SwapPass(alg, frame.groups, track_preference)
            IN  /\ frame' = [frame EXCEPT !.groups = r.pairs,
                                          !.iteration = frame.iteration + 1]
                /\ pc' = IF r.improved THEN "swaps" ELSE "shuffle"
    /\ UNCHANGED app
    /\ UNCHANGED <<students, previous_sessions, alg, pairs, track_preference,
                   use_larger_groups>>

\* lines 495-507: the test of the loop of the groups of 4 and one pass of it
GroupOf4Step ==
    /\ pc = "groups_of_4"
    /\ IF /\ Len(frame.groups) < TargetGroupsOf4(Len(alg.student_ids))
          /\ Len(frame.remaining) >= 4
       THEN \E r \in GroupPass(alg, frame.remaining, frame.groups, 4, track_preference) :
               /\ frame' = [frame EXCEPT !.remaining = r.remaining, !.groups = r.groups]
               /\ pc' = IF r.stop THEN "groups_of_3" ELSE "groups_of_4"
       ELSE /\ frame' = frame
            /\ pc' = "groups_of_3"
    /\ UNCHANGED app
    /\ UNCHANGED <<students, previous_sessions, alg, pairs, track_preference,
                   use_larger_groups>>

\* lines 509-519: the test of the loop of the groups of 3 and one pass of
\* it; the students it leaves are in any order (line 493)
GroupOf3Step ==
    /\ pc = "groups_of_3"
    /\ IF Len(frame.remaining) >= 3
       THEN \E r \in GroupPass(alg, frame.remaining, frame.groups, 3, track_preference) :
               IF r.stop
               THEN /\ \E left \in Shuffles(r.remaining) :
                         frame' = [frame EXCEPT !.remaining = left, !.groups = r.groups]
                    /\ pc' = "leftovers"
               ELSE /\ frame' = [frame EXCEPT !.remaining = r.remaining,
                                              !.groups = r.groups]
                    /\ pc' = "groups_of_3"
       ELSE /\ \E left \in Shuffles(frame.remaining) :
                 frame' = [frame EXCEPT !.remaining = left]
            /\ pc' = "leftovers"
    /\ UNCHANGED app
    /\ UNCHANGED <<students, previous_sessions, alg, pairs, track_preference,
                   use_larger_groups>>

\* lines 521-626: the test of the loop over the students left and one pass
\* of it
LeftoverStep ==
    /\ pc = "leftovers"
    /\ IF Len(frame.remaining) > 0
       THEN /\ \E r \in LeftoverPass(alg, frame.remaining, frame.groups,
                                      track_preference) :
                 frame' = [frame EXCEPT !.remaining = r.remaining, !.groups = r.groups]
            /\ pc' = "leftovers"
       ELSE /\ frame' = frame
            /\ pc' = "shuffle"
    /\ UNCHANGED app
    /\ UNCHANGED <<students, previous_sessions, alg, pairs, track_preference,
                   use_larger_groups>>

\* a shuffle that reaches into the groups: the members of one group are
\* shuffled as well
ShuffleAndReturn_members ==
    /\ pc = "shuffle"
    /\ \E order \in Shuffles(frame.groups) :
       \E g \in DOMAIN order :
       \E members \in Shuffles(order[g]) : pairs' = [order EXCEPT ![g] = members]
    /\ frame' = NoFrame
    /\ pc' = "returned"
    /\ UNCHANGED app
    /\ UNCHANGED <<students, previous_sessions, alg, track_preference,
                   use_larger_groups>>

\* lines 456-459 and 628-631: random.shuffle of the groups and return
ShuffleAndReturn ==
    /\ pc = "shuffle"
    /\ pairs' \in Shuffles(frame.groups)
    /\ frame' = NoFrame
    /\ pc' = "returned"
    /\ UNCHANGED app
    /\ UNCHANGED <<students, previous_sessions, alg, track_preference,
                   use_larger_groups>>

NextSteps ==
    \/ StartCall
    \/ BuildStep \/ FinishPairs \/ SwapStep
    \/ GroupOf4Step \/ GroupOf3Step \/ LeftoverStep
    \/ ShuffleAndReturn

\* The call keeps running until it returns: weak fairness of the steps.  At
\* each position one step is enabled and it changes pc or frame, so that
\* ENABLED <<NextSteps>>_vars is pc # "returned"; the second conjunct is
\* WF_vars(NextSteps) with that written out.
Fairness ==
    /\ WF_vars(BuildStep) /\ WF_vars(SwapStep) /\ WF_vars(ShuffleAndReturn)
    /\ ([]<>(pc = "returned") \/ []<><<NextSteps>>_vars)

SpecSteps == InitSteps /\ [][NextSteps]_vars /\ Fairness

---------------------------------------------------------------------------
(* Symmetry, track preference, counters *)

\* a history with the members of every group listed in the opposite order
MembersReversed(sessions) ==
    [p \in DOMAIN sessions |->
        [sessions[p] EXCEPT !.pairs = [g \in DOMAIN @ |-> Reverse(@[g])]]]

\* C11: the score of a pair is symmetric: calculate_pair_score(a, b) equals
\* calculate_pair_score(b, a) for any two present students, any history and
\* any track preference (and so does the score the constructor computes),
\* and the recency and forbidden status of {a, b} do not depend on the order
\* in which a and b are listed inside the historical group.
C11_Symmetric ==
    pc = "generated" =>
        /\ \A a, b \in present_ids : a # b =>
              /\ \A preference \in Preferences :
                    calculate_pair_score(alg, a, b, preference)
                        = calculate_pair_score(alg, b, a, preference)
              /\ _calculate_pair_score(alg, a, b) = _calculate_pair_score(alg, b, a)
              /\ alg.pair_scores[{a, b}] = _calculate_pair_score(alg, b, a)
        /\ BuildIndex(MembersReversed(previous_sessions)).recent_pairs = alg.recent_pairs
        /\ BuildIndex(MembersReversed(previous_sessions)).forbidden_pairs
              = alg.forbidden_pairs

\* two present students of unequal counters meet in the history, and a pair
\* of the index was listed with the larger id first in the session that set
\* its recency
C11_Witness ==
    /\ pc = "generated"
    /\ \E a, b \in present_ids :
          /\ G3(alg, a) # G3(alg, b)
          /\ {a, b} \in DOMAIN alg.recent_pairs
    /\ \E c, d \in present_ids :
          /\ c < d /\ {c, d} \in DOMAIN alg.recent_pairs
          /\ LET session == previous_sessions[Len(previous_sessions)
                                                - alg.recent_pairs[{c, d}]]
             IN  \E g \in DOMAIN session.pairs :
                    \E i, j \in DOMAIN session.pairs[g] :
                        /\ i < j
                        /\ session.pairs[g][i] = d
                        /\ session.pairs[g][j] = c

TrackOf(self, sid) == student_lookup(self, sid).track

\* C12: four present students, two per track value, an empty history,
\* preference "same" and pair mode: the result is the two same-track pairs,
\* for every input order and every value of the stored triple counts.
C12_SameTrackPairs ==
    pc = "generated" =>
        /\ Len(pairs) = 2
        /\ \A g \in DOMAIN pairs :
              /\ Len(pairs[g]) = 2
              /\ TrackOf(alg, pairs[g][1]) = TrackOf(alg, pairs[g][2])

\* the counters made the greedy step pair a student across the tracks, and
\* the result is made of same-track pairs
C12_Witness ==
    /\ pc = "generated" /\ track_preference = "same" /\ Len(pairs) = 2
    /\ LET greedy == _build_pairs_incrementally(alg, alg.student_ids, "same")
       IN  \E g \in DOMAIN greedy :
              /\ Len(greedy[g]) = 2
              /\ TrackOf(alg, greedy[g][1]) # TrackOf(alg, greedy[g][2])
    /\ \A g \in DOMAIN pairs : TrackOf(alg, pairs[g][1]) = TrackOf(alg, pairs[g][2])

\* the groups of three of a list that hold a student
ThreesWith(pairings, sid) ==
    {g \in DOMAIN pairings : Len(pairings[g]) = 3 /\ sid \in Range(pairings[g])}

\* C13: update_group_of_three_counts on the partition returned raises each
\* member's times_in_group_of_three by exactly one per group of exactly three
\* members that holds it (the copy on the roster follows), and leaves the
\* counter of a member of a group of two or four only, and of an absent
\* student, as it was.
C13_ThreeCounts ==
    [][ (pc = "generated" /\ pc' = "counted") =>
          /\ \A i \in DOMAIN alg.students :
                alg'.students[i].times_in_group_of_three
                    = alg.students[i].times_in_group_of_three
                      + Cardinality(ThreesWith(pairs, alg.students[i].id))
          /\ \A i \in DOMAIN students :
                students'[i].times_in_group_of_three
                    = students[i].times_in_group_of_three
                      + Cardinality(ThreesWith(pairs, students[i].id)) ]_vars

\* the counts are in: a group of three, a member of it counted, beside a
\* pair whose members have never been counted
C13_Witness ==
    /\ pc = "counted"
    /\ \E g, h \in DOMAIN pairs :
          /\ Len(pairs[g]) = 3 /\ Len(pairs[h]) = 2
          /\ \A sid \in Range(pairs[g]) : G3(alg, sid) = 1
          /\ \A sid \in Range(pairs[h]) : G3(alg, sid) = 0

\* C14: after update_group_counts on the list returned, each member of every
\* group of exactly four members has times_in_group_of_four raised by one.
C14_FourCounts ==
    pc = "generated" =>
        LET after == update_group_counts(alg, pairs)
        IN  \A g \in DOMAIN pairs : Len(pairs[g]) = 4 =>
                \A sid \in Range(pairs[g]) :
                    times_in_group_of_four(after, sid)
                        = times_in_group_of_four(alg, sid) + 1

\* the groups of exactly three members that hold a student, over a history
HistoryThrees(sessions, sid) ==
    Cardinality({c \in {<<p, g>> : p \in DOMAIN sessions, g \in 1..MaxStudents} :
                    /\ c[2] \in DOMAIN sessions[c[1]].pairs
                    /\ Len(sessions[c[1]].pairs[c[2]]) = 3
                    /\ sid \in Range(sessions[c[1]].pairs[c[2]])})

\* C15: the count of earlier groups of three that the scorer and the triplet
\* selection use for a student is the number of groups of exactly three
\* members holding that student in the history supplied (zero on an empty
\* history), whatever the stored counter says.
C15_CountsFromHistory ==
    pc = "generated" =>
        /\ \A sid \in Range(alg.student_ids) :
              G3(alg, sid) = HistoryThrees(alg.previous_sessions, sid)
        /\ \A a, b \in Range(alg.student_ids) :
              (a # b /\ {a, b} \notin DOMAIN alg.recent_pairs) =>
                  _calculate_pair_score(alg, a, b)
                      = Abs(HistoryThrees(alg.previous_sessions, a)
                            - HistoryThrees(alg.previous_sessions, b)) * 2 * Scale

\* C16: larger mode on an empty history, for a number n of present students
\* that is at least 3 and is not 5: every group has 3 or 4 members and the
\* number of groups of 4 is 0, 1 or 2 as n mod 3 is 0, 1 or 2.
C16_LargerSizes ==
    (pc = "generated" /\ use_larger_groups /\ previous_sessions = <<>>
        /\ Len(alg.student_ids) >= 3 /\ Len(alg.student_ids) # 5) =>
        /\ \A g \in DOMAIN pairs : Len(pairs[g]) \in {3, 4}
        /\ GroupsOfSize(pairs, 4) = Len(alg.student_ids) % 3

\* eight students came out as two groups of four
C16_Witness ==
    /\ pc = "generated" /\ use_larger_groups /\ previous_sessions = <<>>
    /\ Len(alg.student_ids) = 8
    /\ Len(pairs) = 2
    /\ Len(pairs[1]) = 4 /\ Len(pairs[2]) = 4

\* C17: in larger mode, whatever the history and the number of present
\* students, no group returned has more than 4 members, the leftover
\* students folded into the groups counted.
C17_AtMostFour ==
    (pc = "generated" /\ use_larger_groups) =>
        \A g \in DOMAIN pairs : Len(pairs[g]) <= 4

\* five students: a leftover student made the group of 3 a group of 4, and
\* the other one, turned away by the full group, stands alone
C17_Witness ==
    /\ pc = "generated" /\ use_larger_groups
    /\ Len(alg.student_ids) = 5
    /\ GroupsOfSize(pairs, 4) = 1 /\ GroupsOfSize(pairs, 1) = 1

\* C18: generate_pairings returns the empty list for no student, one group
\* of one member for one student and one group of both for two students, in
\* pair mode and in larger mode, also when the two students were grouped in
\* the most recent session.
C18_EdgeCases ==
    pc = "generated" =>
        /\ Len(alg.students) = 0 => pairs = <<>>
        /\ Len(alg.students) = 1 => pairs = << <<alg.students[1].id>> >>
        /\ Len(alg.students) = 2 =>
              /\ Len(pairs) = 1 /\ Len(pairs[1]) = 2
              /\ Range(pairs[1]) = {alg.students[1].id, alg.students[2].id}

\* two students who were together in the last session are grouped again, in
\* larger mode
C18_Witness ==
    /\ pc = "generated" /\ use_larger_groups
    /\ Len(alg.students) = 2
    /\ {alg.students[1].id, alg.students[2].id} \in alg.forbidden_pairs
    /\ pairs = << <<alg.students[1].id, alg.students[2].id>> >>

\* C19: with a student record that has no track field, a preference of
\* "same" or "different" and three students or more, generate_pairings
\* completes and returns a complete partition of the students.
C19_CompletesWithoutTrack ==
    (/\ pc \in {"generated", "KeyError"}
     /\ track_preference \in {"same", "different"}
     /\ Len(alg.students) >= 3
     /\ \E sid \in Range(alg.student_ids) : ~has_track(alg, sid)) =>
        /\ pc = "generated"
        /\ Len(Flatten(pairs)) = Len(alg.student_ids)
        /\ Range(Flatten(pairs)) = Range(alg.student_ids)

\* C20: every generate_pairings call ends and returns a partition of the
\* students: each pass of the greedy loop, of the loops that build the
\* larger groups and of the loop over the students left takes a student off
\* the list or leaves the loop, and the swap loop makes at most 10 passes.
C20_Terminates ==
    <>( /\ pc = "returned"
        /\ Len(Flatten(pairs)) = Len(alg.student_ids)
        /\ Range(Flatten(pairs)) = Range(alg.student_ids) )

\* a call in larger mode on five students grouped in the last session has
\* returned: no group of 3 was valid, the loop over the students left made
\* the groups
C20_Witness ==
    /\ pc = "returned" /\ use_larger_groups
    /\ Len(alg.student_ids) = 5
    /\ alg.forbidden_pairs # {}
    /\ GroupsOfSize(pairs, 2) = 2 /\ GroupsOfSize(pairs, 1) = 1

---------------------------------------------------------------------------
(* The simulation loop on a class of four to MaxSixClass students, all      *)
(* present at every session, in pair mode                                   *)

InitSix ==
    /\ app = NoApp
    /\ \E size \in 4..MaxSixClass : students = generate_class(size)
    /\ previous_sessions = <<>>
    /\ alg = NoAlgorithm
    /\ pairs = <<>>
    /\ track_preference = "none"
    /\ use_larger_groups = FALSE
    /\ pc = "idle"
    /\ frame = NoFrame

\* PairingAlgorithm(students, previous_sessions).generate_pairings(preference)
GenerateSix ==
    /\ pc = "idle"
    /\ \E preference \in Preferences :
         \E out \in generate_pairings(PairingAlgorithm(students, previous_sessions),
                                      preference, FALSE) :
            /\ pairs' = out.pairs
            /\ alg' = out.self
            /\ track_preference' = preference
    /\ pc' = "generated"
    /\ UNCHANGED <<students, previous_sessions, use_larger_groups, frame, app>>

AppendSix == AppendTheSession(MaxSixRounds)

NextSix == GenerateSix \/ AppendSix

SpecSix == InitSix /\ [][NextSix]_vars

\* some group of the list holds a forbidden pair
HasForbiddenPair(self, groups) ==
    \E g \in DOMAIN groups : ~_is_valid_pair(self, groups[g])

\* the lists that differ from groups by one member of a group exchanged with
\* one member of another group
OneExchange(groups) ==
    { SwapMembers(groups, i, j, idx1, idx2) :
        <<i, j, idx1, idx2>> \in
            { c \in (DOMAIN groups) \X (DOMAIN groups) \X (1..4) \X (1..4) :
                /\ c[1] < c[2]
                /\ c[3] \in DOMAIN groups[c[1]]
                /\ c[4] \in DOMAIN groups[c[2]] } }

\* C21: in pair mode, when the list the construction yields holds a
\* forbidden pair and one exchange of two members between two groups would
\* leave none, the list returned holds no forbidden pair, whatever the track
\* preference.
C21_RepairedBySwap ==
    (/\ pc = "generated" /\ ~use_larger_groups
     /\ Len(alg.student_ids) > 2
     /\ HasForbiddenPair(alg, PairModeBuilt(alg, track_preference))
     /\ \E fixed \in OneExchange(PairModeBuilt(alg, track_preference)) :
            ~HasForbiddenPair(alg, fixed))
    => ~HasForbiddenPair(alg, pairs)

---------------------------------------------------------------------------
(* Properties of the greedy steps of pair construction (SpecSteps) *)

\* the next step is a greedy step: the loop goes on and does not take the
\* three students left as a triplet
GreedyStep == pc = "pairs" /\ Len(frame.remaining) >= 2 /\ Len(frame.remaining) # 3

\* the forbidden pairs that hold sid
ForbiddenCount(self, sid) == Cardinality({p \in self.forbidden_pairs : sid \in p})

\* the step pairs the head of the unplaced list with the candidate at
\* position k of the others, and both leave the list
PairsHeadWith(k) ==
    LET rest == Tail(frame.remaining)
    IN  /\ frame'.groups = Append(frame.groups, <<Head(frame.remaining), rest[k]>>)
        /\ Len(frame'.remaining) = Len(rest) - 1
        /\ Range(frame'.remaining) = Range(rest) \ {rest[k]}

\* C22: a greedy step always pairs the member it takes with one of the other
\* unplaced members, and the pair is a forbidden pair only if every other
\* unplaced member was forbidden with the member taken.
C22_ForbiddenOnlyWhenForced ==
    [][GreedyStep =>
        LET student1 == Head(frame.remaining)
            rest == Tail(frame.remaining)
        IN  \E k \in DOMAIN rest :
                /\ PairsHeadWith(k)
                /\ {student1, rest[k]} \in alg.forbidden_pairs =>
                      \A q \in DOMAIN rest : {student1, rest[q]} \in alg.forbidden_pairs
    ]_vars

\* a first greedy step paired two students of a forbidden pair and two more
\* students are still unplaced
C22_Witness ==
    /\ pc = "pairs" /\ Len(frame.groups) = 1 /\ Len(frame.remaining) = 2
    /\ Len(frame.groups[1]) = 2
    /\ {frame.groups[1][1], frame.groups[1][2]} \in alg.forbidden_pairs

\* C23: a greedy step takes a member whose forbidden-pair count is greatest
\* among the unplaced members and, when some unplaced candidate is not
\* forbidden with it, pairs it with a candidate that is not forbidden and
\* whose pair score plus track term is least among those candidates.
C23_MostConstrainedBestPartner ==
    [][GreedyStep =>
        LET student1 == Head(frame.remaining)
            rest == Tail(frame.remaining)
            feasible == {k \in DOMAIN rest :
                            {student1, rest[k]} \notin alg.forbidden_pairs}
        IN  /\ \A q \in DOMAIN rest :
                   ForbiddenCount(alg, student1) >= ForbiddenCount(alg, rest[q])
            /\ feasible # {} =>
                  \E k \in feasible :
                      /\ PairsHeadWith(k)
                      /\ \A q \in feasible :
                            calculate_pair_score(alg, student1, rest[k], track_preference)
                              <= calculate_pair_score(alg, student1, rest[q],
                                                      track_preference)
    ]_vars

\* a first greedy step took a member with more forbidden pairs than one left
\* unplaced, and passed over a candidate that was not forbidden and scored
\* worse than the partner it chose
C23_Witness ==
    /\ pc = "pairs" /\ Len(frame.groups) = 1 /\ Len(frame.groups[1]) = 2
    /\ \E q \in DOMAIN frame.remaining :
          ForbiddenCount(alg, frame.groups[1][1]) > ForbiddenCount(alg, frame.remaining[q])
    /\ \E q \in DOMAIN frame.remaining :
          /\ {frame.groups[1][1], frame.remaining[q]} \notin alg.forbidden_pairs
          /\ calculate_pair_score(alg, frame.groups[1][1], frame.groups[1][2],
                                  track_preference)
               < calculate_pair_score(alg, frame.groups[1][1], frame.remaining[q],
                                      track_preference)

---------------------------------------------------------------------------
(* A call in pair mode followed pass by pass, on classes of four to         *)
(* MaxSwapClass students with stored counters, the history empty or the     *)
(* one session the code itself yields for the class                         *)

\* generate_class(size) with stored counters
CountedClass(size, count) ==
    [i \in 1..size |-> [generate_class(size)[i] EXCEPT
                           !.times_in_group_of_three = count[i]]]

InitSwaps ==
    /\ app = NoApp
    /\ \E size \in 4..MaxSwapClass :
         \E count \in [1..size -> {0, MaxStoredCount}] :
            /\ students = CountedClass(size, count)
            /\ previous_sessions \in
                  { <<>>,
                    Dated(<< PairModeGroups(PairingAlgorithm(students, <<>>), "none") >>) }
    /\ alg = PairingAlgorithm(students, previous_sessions)
    /\ pairs = <<>>
    /\ track_preference = "none"
    /\ use_larger_groups = FALSE
    /\ pc = "built"
    /\ frame = NoFrame

\* generate_pairings(preference), use_larger_groups left at its default
StartPairs == \E preference \in Preferences : Start(preference, FALSE)

NextSwaps == StartPairs \/ BuildStep \/ FinishPairs \/ SwapStep \/ ShuffleAndReturn

SpecSwaps == InitSwaps /\ [][NextSwaps]_vars

\* the groups of size 2 of the list that satisfy the preference
Satisfying(self, groups, preference) ==
    {g \in DOMAIN groups :
        /\ Len(groups[g]) = 2
        /\ (preference = "same") =
              (TrackOf(self, groups[g][1]) = TrackOf(self, groups[g][2]))}

\* C24: a pass of the track optimisation changes the list only by
\* exchanging one member between two groups of size 2; the exchange strictly
\* increases the number of groups of size 2 that satisfy the preference and
\* leaves both groups without a forbidden pair; groups of size 3 and the set
\* of members are left as they were; with "none" nothing changes.
C24_SwapsOnlyImprove ==
    [][pc = "swaps" =>
        /\ track_preference = "none" => frame'.groups = frame.groups
        /\ frame'.groups # frame.groups =>
              \E i, j \in DOMAIN frame.groups : \E idx1, idx2 \in 1..2 :
                  /\ i < j
                  /\ Len(frame.groups[i]) = 2 /\ Len(frame.groups[j]) = 2
                  /\ frame'.groups = SwapMembers(frame.groups, i, j, idx1, idx2)
                  /\ ~HasForbiddenPair(alg, <<frame'.groups[i], frame'.groups[j]>>)
                  /\ Cardinality(Satisfying(alg, frame'.groups, track_preference))
                       > Cardinality(Satisfying(alg, frame.groups, track_preference))
        /\ Len(frame'.groups) = Len(frame.groups)
        /\ \A g \in DOMAIN frame.groups :
              Len(frame.groups[g]) = 3 => frame'.groups[g] = frame.groups[g]
        /\ Range(Flatten(frame'.groups)) = Range(Flatten(frame.groups))
        /\ Len(Flatten(frame'.groups)) = Len(Flatten(frame.groups))
    ]_vars

\* a pass has exchanged two members of the list the construction yielded,
\* beside a group of 3, in a class with forbidden pairs
C24_Witness ==
    /\ pc = "swaps" /\ frame.iteration >= 1
    /\ alg.forbidden_pairs # {}
    /\ GroupsOfSize(frame.groups, 3) = 1
    /\ frame.groups # _eliminate_singletons_normal_mode(
                          alg, PairModeBuilt(alg, track_preference))

---------------------------------------------------------------------------
(* _eliminate_singletons_normal_mode on any list of groups that covers the  *)
(* class, followed one singleton at a time.  pairs holds the list as it was *)
(* handed over, frame.groups the list being worked on, frame.remaining the  *)
(* singleton students yet to be put back.                                   *)

\* the lists of disjoint groups that cover the ids, in every order of the
\* groups
RECURSIVE Candidates(_)
Candidates(ids) ==
    IF ids = {} THEN {<<>>}
    ELSE UNION { { <<SetToSeq(A)>> \o rest : rest \in Candidates(ids \ A) } :
                 A \in SUBSET ids \ {{}} }

InitMerge ==
    /\ app = NoApp
    /\ \E size \in 2..MaxMergeClass :
         /\ students = generate_class(size)
         /\ \E k \in 0..MaxMergeSessions :
              \E h \in [1..k -> Groupings(1..size)] : previous_sessions = Dated(h)
         /\ pairs \in Candidates(1..size)
    /\ alg = PairingAlgorithm(students, previous_sessions)
    /\ track_preference = "none"
    /\ use_larger_groups = FALSE
    /\ pc = "candidate"
    /\ frame = NoFrame

\* lines 749-760: the groups of one are found and popped, or the list is
\* returned as it is
RemoveSingletons ==
    /\ pc = "candidate"
    /\ IF SingletonStudents(pairs) = <<>>
       THEN /\ frame' = [NoFrame EXCEPT !.groups = pairs]
            /\ pc' = "eliminated"
       ELSE /\ frame' = [NoFrame EXCEPT !.groups = WithoutSingletons(pairs),
                                        !.remaining = SingletonStudents(pairs)]
            /\ pc' = "merging"
    /\ UNCHANGED app
    /\ UNCHANGED <<students, previous_sessions, alg, pairs, track_preference,
                   use_larger_groups>>

\* lines 763-798: one pass of the loop over the singleton students, or the
\* return
MergeStep ==
    /\ pc = "merging"
    /\ IF frame.remaining # <<>>
       THEN /\ frame' = [frame EXCEPT
                           !.groups = MergeOne(alg, frame.groups, Head(frame.remaining)),
                           !.remaining = Tail(frame.remaining)]
            /\ pc' = "merging"
       ELSE /\ frame' = frame
            /\ pc' = "eliminated"
    /\ UNCHANGED app
    /\ UNCHANGED <<students, previous_sessions, alg, pairs, track_preference,
                   use_larger_groups>>

NextMerge == RemoveSingletons \/ MergeStep

SpecMerge == InitMerge /\ [][NextMerge]_vars

\* the cost of adding sid to the group: the pair scores, 5000 for a
\* forbidden pair
AddedCost(self, group, sid) ==
    LET C(e) == IF {sid, e} \in self.forbidden_pairs THEN 5000 * Scale
                ELSE GetScore(self, {sid, e})
    IN  C(group[1]) + C(group[2])

\* the step adds the student at the head of frame.remaining to group g, a
\* group of 2 of least added cost among the groups of 2
MergedAtLeastCost(g) ==
    LET sid == Head(frame.remaining)
    IN  /\ Len(frame.groups[g]) = 2
        /\ frame'.groups = AppendTo(frame.groups, g, sid)
        /\ \A k \in DOMAIN frame.groups :
              Len(frame.groups[k]) = 2 =>
                 AddedCost(alg, frame.groups[g], sid) <= AddedCost(alg, frame.groups[k], sid)

\* what the function returns: the same members, no group of one, and the
\* list handed over if it had no group of one
ReturnsWithoutSingletons ==
    pc' = "eliminated" =>
        /\ GroupsOfSize(frame'.groups, 1) = 0
        /\ Range(Flatten(frame'.groups)) = Range(Flatten(pairs))
        /\ Len(Flatten(frame'.groups)) = Len(Flatten(pairs))
        /\ GroupsOfSize(pairs, 1) = 0 => frame'.groups = pairs

\* C25 as stated: on any list covering two members or more, every singleton
\* student is merged into a group of 2 of least added cost among the groups
\* of 2 present, forbidden pairs never blocking; the list returned has the
\* same members and no group of one, and a list without singletons comes
\* back unchanged.
C25_MergedIntoAPair ==
    [][/\ (pc = "merging" /\ frame.remaining # <<>>) =>
              \E g \in DOMAIN frame.groups : MergedAtLeastCost(g)
       /\ ReturnsWithoutSingletons
    ]_vars

\* C25 amended: the singleton student is merged into a group of 2 of least
\* added cost when a group of 2 is present; when none is, it joins the first
\* smallest group, or starts the list when the list is empty.
C25_MergedIntoAPairIfAny ==
    [][/\ (pc = "merging" /\ frame.remaining # <<>>) =>
              IF \E g \in DOMAIN frame.groups : Len(frame.groups[g]) = 2
              THEN \E g \in DOMAIN frame.groups : MergedAtLeastCost(g)
              ELSE IF frame.groups = <<>>
              THEN frame'.groups = << <<Head(frame.remaining)>> >>
              ELSE \E g \in DOMAIN frame.groups :
                      /\ frame'.groups = AppendTo(frame.groups, g, Head(frame.remaining))
                      /\ \A k \in DOMAIN frame.groups :
                            \/ Len(frame.groups[g]) < Len(frame.groups[k])
                            \/ Len(frame.groups[g]) = Len(frame.groups[k]) /\ g <= k
       /\ ReturnsWithoutSingletons
    ]_vars

\* a singleton student was merged into the second of two groups of 2, the
\* first costing more, and forbidden with a member of the group it joined
C25_Witness ==
    /\ pc = "eliminated"
    /\ GroupsOfSize(pairs, 1) = 1 /\ GroupsOfSize(pairs, 2) = 2
    /\ Len(frame.groups) = 2 /\ Len(frame.groups[2]) = 3
    /\ {frame.groups[2][3], frame.groups[2][1]} \in alg.forbidden_pairs
    /\ AddedCost(alg, frame.groups[1], frame.groups[2][3])
         > AddedCost(alg, SubSeq(frame.groups[2], 1, 2), frame.groups[2][3])

---------------------------------------------------------------------------
\* C26: an odd class in pair mode, the history empty: no present student
\* outside the group of 3 returned has a stored triple count strictly below
\* that of every member of the group of 3.
C26_TripletPrefersFewer ==
    (/\ pc = "returned" /\ ~use_larger_groups
     /\ previous_sessions = <<>>
     /\ Len(alg.student_ids) % 2 = 1)
    => \A g \in DOMAIN pairs :
          Len(pairs[g]) = 3 =>
             ~ \E sid \in Range(alg.student_ids) \ Range(pairs[g]) :
                  \A m \in Range(pairs[g]) : G3(alg, sid) < G3(alg, m)


----------------------------------------------------------------------------
(* The application: the roster, pairing and history views of src/views work *)
(* on one shared class_data dictionary.  Here students is its "students",   *)
(* previous_sessions its "sessions" (records with id, date, the id lists of *)
(* the present and absent students, and pairs, a list of records            *)
(* [student_ids, present]), pairs the pairing screen's current_pairings,    *)
(* alg its last_algorithm, pc the view on screen, and app holds the         *)
(* class's "attendance" and the history view's fields.                      *)

MaxAppClass == 4      \* students of the class the views work on
MaxAppSessions == 2   \* sessions of the class the views work on
MaxMoves == 1         \* chips dragged in the history view

\* current_pairings = None
NoPairings == [generated |-> FALSE]

\* the names of the roster: add_student_dialog asks for a name that is not
\* empty and nothing more, so two students may carry one name
RosterNames(size) ==
    { [i \in 1..size |-> i],
      [i \in 1..size |-> IF i = 2 THEN 1 ELSE i] }

AppClass(size, names) ==
    [i \in 1..size |-> generate_class(size)[i] @@ [name |-> names[i]]]

\* student_roster.py 369-376: the id of the first student of that name
IdByName(roster, student_name) ==
    roster[CHOOSE i \in DOMAIN roster :
               /\ roster[i].name = student_name
               /\ \A j \in 1..(i - 1) : roster[j].name # student_name].id

\* proceed_to_pairing: one table row per student; the row's id is looked up
\* by the name it shows, and goes to the present list when its box is checked
CollectAttendance(roster, checked) ==
    LET row_ids == [i \in DOMAIN roster |-> IdByName(roster, roster[i].name)]
    IN  [present |-> AtPositions(row_ids, checked, 1),
         absent  |-> AtPositions(row_ids, DOMAIN roster \ checked, 1)]

\* [students_dict[sid] for sid in ids if sid in students_dict]
StudentsOf(roster, ids) ==
    LET known == SelectSeq(ids, LAMBDA sid : \E i \in DOMAIN roster : roster[i].id = sid)
    IN  [k \in DOMAIN known |->
            roster[CHOOSE i \in DOMAIN roster : roster[i].id = known[k]]]

\* get_students_by_attendance: with no attendance data everybody is present
get_students_by_attendance(roster, attendance) ==
    IF attendance.present = <<>> /\ attendance.absent = <<>>
    THEN [present |-> roster, absent |-> <<>>]
    ELSE [present |-> StudentsOf(roster, attendance.present),
          absent  |-> StudentsOf(roster, attendance.absent)]

\* the history as PairingAlgorithm reads it: session["pairs"][g]["student_ids"]
StudentIdLists(sessions) ==
    [k \in DOMAIN sessions |->
        [date  |-> sessions[k].date,
         pairs |-> [g \in DOMAIN sessions[k].pairs |-> sessions[k].pairs[g].student_ids]]]

\* the pairs list of a session: the present groups, then the absent ones
SessionPairs(present_groups, absent_groups) ==
    [g \in DOMAIN present_groups |-> [student_ids |-> present_groups[g], present |-> TRUE]]
      \o [g \in DOMAIN absent_groups |-> [student_ids |-> absent_groups[g], present |-> FALSE]]

\* the ids of the groups of a pairs list that carry the given flag, in order
IdsFlagged(the_pairs, flag) ==
    Flatten([g \in DOMAIN the_pairs |->
                IF the_pairs[g].present = flag THEN the_pairs[g].student_ids ELSE <<>>])

\* _update_group_counts_from_history: every counter is reset and the groups
\* of exactly three of all the sessions are counted again
_update_group_counts_from_history(roster, sessions) ==
    [i \in DOMAIN roster |->
        [roster[i] EXCEPT !.times_in_group_of_three =
            HistoryThrees(StudentIdLists(sessions), roster[i].id)]]


\* current_session = None, original_session = None
NoSession == [id |-> 0]

\* the views before any of them was used: no attendance taken, no session
\* selected in the history view
InitialApp ==
    [attendance       |-> [present |-> <<>>, absent |-> <<>>],
     selected         |-> 0,          \* the session the combo box shows
     aliased          |-> FALSE,      \* current_session is the list's own record
     copy             |-> NoSession,  \* current_session when it is a copy
     original_session |-> NoSession,
     changes_made     |-> FALSE,
     rows             |-> <<>>,       \* the chips of the table's rows
     moves            |-> 0]          \* chips dragged so far (bounds the model)

\* the history view's current_session: load_session binds it to the record
\* in class_data["sessions"] itself, undo_changes to a copy
current_session ==
    IF app.selected = 0 THEN NoSession
    ELSE IF app.aliased THEN previous_sessions[app.selected]
    ELSE app.copy

\* history_view.py 318-335: one row per group, a chip per known student
RowsOf(session, roster) ==
    [g \in DOMAIN session.pairs |->
        SelectSeq(session.pairs[g].student_ids,
                  LAMBDA sid : \E i \in DOMAIN roster : roster[i].id = sid)]

\* load_session: the record found by its id
load_session(k) ==
    [app EXCEPT !.selected = k, !.aliased = TRUE, !.copy = NoSession,
                !.original_session = previous_sessions[k],
                !.changes_made = FALSE,
                !.rows = RowsOf(previous_sessions[k], students)]

\* refresh_sessions sorts by date, newest first, and the combo box loads
\* its first entry
Newest(sessions) ==
    CHOOSE k \in DOMAIN sessions :
        \A j \in DOMAIN sessions :
            \/ sessions[j].date < sessions[k].date
            \/ sessions[j].date = sessions[k].date /\ j >= k

\* update_session_from_table: the groups are rebuilt from the rows that still
\* hold a chip, each with the flag of the group now at its index
update_session_from_table(session, rows) ==
    LET kept      == SelectSeq([i \in DOMAIN rows |-> i], LAMBDA i : rows[i] # <<>>)
        new_pairs == [n \in DOMAIN kept |->
                        [student_ids |-> rows[kept[n]],
                         present     |-> IF kept[n] <= Len(session.pairs)
                                         THEN session.pairs[kept[n]].present
                                         ELSE TRUE]]
    IN  [session EXCEPT !.pairs = new_pairs,
                        !.present_student_ids = IdsFlagged(new_pairs, TRUE),
                        !.absent_student_ids  = IdsFlagged(new_pairs, FALSE)]

\* DroppableTableRow.dropEvent: the chip leaves its row and is added at the
\* end of the row it is dropped on
MoveChip(rows, student_id, new_row) ==
    [r \in DOMAIN rows |->
        LET without == SelectSeq(rows[r], LAMBDA sid : sid # student_id)
        IN  IF r = new_row THEN Append(without, student_id) ELSE without]

\* the roster view's "Proceed to pairing": up to MaxAbsent boxes are unchecked
ProceedToPairing ==
    /\ pc = "roster"
    /\ Len(previous_sessions) < MaxAppSessions
    /\ \E checked \in SUBSET DOMAIN students :
         /\ Cardinality(DOMAIN students \ checked) <= MaxAbsent
         /\ LET attendance == CollectAttendance(students, checked)
            IN  \* two rows of one name are not both checked or both unchecked
                /\ Cardinality(Range(attendance.present)) = Len(attendance.present)
                /\ Cardinality(Range(attendance.absent)) = Len(attendance.absent)
                /\ app' = [app EXCEPT !.attendance = attendance]
    /\ pairs' = NoPairings
    /\ pc' = "pairing"
    /\ UNCHANGED <<students, previous_sessions, alg, track_preference,
                   use_larger_groups, frame>>

\* the navigation bar
GoToStudents ==
    /\ pc # "roster"
    /\ pc' = "roster"
    /\ UNCHANGED <<students, previous_sessions, alg, pairs, track_preference,
                   use_larger_groups, frame, app>>

GoToPairings ==
    /\ pc # "pairing"
    /\ pairs' = NoPairings
    /\ pc' = "pairing"
    /\ UNCHANGED <<students, previous_sessions, alg, track_preference,
                   use_larger_groups, frame, app>>

GoToHistory ==
    /\ pc # "history"
    /\ app' = IF previous_sessions = <<>> THEN app
              ELSE load_session(Newest(previous_sessions))
    /\ pc' = "history"
    /\ UNCHANGED <<students, previous_sessions, alg, pairs, track_preference,
                   use_larger_groups, frame>>

\* another entry of the combo box is chosen
SelectSession ==
    /\ pc = "history"
    /\ \E k \in DOMAIN previous_sessions :
         /\ k # app.selected
         /\ app' = load_session(k)
    /\ UNCHANGED <<students, previous_sessions, alg, pairs, track_preference,
                   use_larger_groups, pc, frame>>


\* the lists one PairingAlgorithm returns for the students handed to it
\* (none when there are no such students)
GroupsFor(the_students, preference, larger) ==
    IF the_students = <<>> THEN {<<>>}
    ELSE UNION { PairingResults(self, preference, larger) :
                   self \in {PairingAlgorithm(the_students,
                                              StudentIdLists(previous_sessions))} }

\* pairing_screen.generate_pairings: the present and the absent students are
\* shuffled and grouped apart, each against the whole history; nothing of the
\* class is written.  (The Regenerate button runs the same handler and
\* reaches nothing that a first run does not: only first runs are taken, and
\* only while a session can still be saved.  The screen's last_algorithm,
\* read by its score display alone, is not kept.)
GenerateOnScreen ==
    /\ pc = "pairing"
    /\ pairs = NoPairings
    /\ Len(previous_sessions) < MaxAppSessions
    /\ LET by == get_students_by_attendance(students, app.attendance)
       IN  /\ by.present # <<>> \/ by.absent # <<>>
           /\ \E preference \in Preferences, larger \in BOOLEAN :
              \E present_students \in Shuffles(by.present),
                 absent_students \in Shuffles(by.absent) :
              \E present_pairs \in GroupsFor(present_students, preference, larger),
                 absent_pairs \in GroupsFor(absent_students, preference, larger) :
                /\ pairs' = [generated |-> TRUE, present |-> present_pairs,
                             absent |-> absent_pairs]
                /\ track_preference' = preference
                /\ use_larger_groups' = larger
    /\ UNCHANGED <<students, previous_sessions, alg, pc, frame, app>>

\* create_session 680-718: the record of the groups shown, the present ones
\* first; its id is new and its date the one picked (here a later day for
\* each session)
session_data(sessions, current_pairings, preference, larger) ==
    [id                  |-> Len(sessions) + 1,
     date                |-> Len(sessions),
     track_preference    |-> preference,
     use_larger_groups   |-> larger,
     present_student_ids |-> Flatten(current_pairings.present),
     absent_student_ids  |-> Flatten(current_pairings.absent),
     pairs               |-> SessionPairs(current_pairings.present,
                                          current_pairings.absent)]

\* save_and_present: create_session appends the record and counts the groups
\* of three of the whole history again; the presentation view opens
CreateSession ==
    /\ pc = "pairing"
    /\ pairs # NoPairings
    /\ Len(previous_sessions) < MaxAppSessions
    /\ previous_sessions' =
          Append(previous_sessions,
                 session_data(previous_sessions, pairs, track_preference,
                              use_larger_groups))
    /\ students' = _update_group_counts_from_history(students, previous_sessions')
    /\ pc' = "presentation"
    /\ UNCHANGED <<alg, pairs, track_preference, use_larger_groups, frame, app>>

\* a chip is dragged to another row: on_student_moved rebuilds the session
\* from the table, in the record current_session is bound to
MoveStudent ==
    /\ pc = "history"
    /\ app.selected # 0
    /\ app.moves < MaxMoves
    /\ \E new_row \in DOMAIN app.rows :
       \E student_id \in Range(Flatten(app.rows)) \ Range(app.rows[new_row]) :
         LET rows   == MoveChip(app.rows, student_id, new_row)
             edited == update_session_from_table(current_session, rows)
         IN  IF app.aliased
             THEN /\ previous_sessions' =
                        [previous_sessions EXCEPT ![app.selected] = edited]
                  /\ app' = [app EXCEPT !.rows = rows, !.changes_made = TRUE,
                                        !.moves = @ + 1]
             ELSE /\ previous_sessions' = previous_sessions
                  /\ app' = [app EXCEPT !.rows = rows, !.changes_made = TRUE,
                                        !.moves = @ + 1, !.copy = edited]
    /\ UNCHANGED <<students, alg, pairs, track_preference, use_larger_groups,
                   pc, frame>>

\* save_changes: current_session takes the place of the record of its id
SaveChanges ==
    /\ pc = "history"
    /\ app.changes_made
    /\ app.selected # 0
    /\ previous_sessions' = [previous_sessions EXCEPT ![app.selected] = current_session]
    /\ app' = [app EXCEPT !.aliased = TRUE, !.copy = NoSession,
                          !.original_session = current_session,
                          !.changes_made = FALSE]
    /\ UNCHANGED <<students, alg, pairs, track_preference, use_larger_groups,
                   pc, frame>>

\* undo_changes: current_session becomes a copy of original_session and the
\* table is filled from it
UndoChanges ==
    /\ pc = "history"
    /\ app.changes_made
    /\ app.original_session # NoSession
    /\ app' = [app EXCEPT !.aliased = FALSE, !.copy = app.original_session,
                          !.rows = RowsOf(app.original_session, students),
                          !.changes_made = FALSE]
    /\ UNCHANGED <<students, previous_sessions, alg, pairs, track_preference,
                   use_larger_groups, pc, frame>>

\* a class of the application on the roster view, with one session saved
\* when everybody was present
InitApp ==
    /\ \E size \in 3..MaxAppClass :
       \E names \in RosterNames(size) :
       \E self \in {PairingAlgorithm(AppClass(size, names), <<>>)} :
       \E groups \in {PairModeGroups(self, "none")} :
       \E first \in {session_data(<<>>, [present |-> groups, absent |-> <<>>],
                                  "none", FALSE)} :
         /\ previous_sessions = <<first>>
         /\ students = _update_group_counts_from_history(AppClass(size, names), <<first>>)
    /\ alg = NoAlgorithm
    /\ pairs = NoPairings
    /\ track_preference = "none"
    /\ use_larger_groups = FALSE
    /\ pc = "roster"
    /\ frame = NoFrame
    /\ app = InitialApp

\* the views with the history view's save and without its undo
NextSaves ==
    \/ ProceedToPairing \/ GoToStudents \/ GoToPairings \/ GoToHistory \/ SelectSession
    \/ GenerateOnScreen \/ CreateSession \/ MoveStudent \/ SaveChanges

SpecSaves == InitApp /\ [][NextSaves]_vars

\* the views with the history view's undo and without its save
NextUndo ==
    \/ ProceedToPairing \/ GoToStudents \/ GoToPairings \/ GoToHistory \/ SelectSession
    \/ GenerateOnScreen \/ CreateSession \/ MoveStudent \/ UndoChanges

SpecUndo == InitApp /\ [][NextUndo]_vars


----------------------------------------------------------------------------
(* The stored counters and the saved history *)

\* every stored counter is the number of groups of exactly three of the
\* saved sessions that hold the student
CountsMatchHistory ==
    \A i \in DOMAIN students :
        students[i].times_in_group_of_three
            = HistoryThrees(StudentIdLists(previous_sessions), students[i].id)

\* C27: after create_session, and after an edit of a session is saved in the
\* history view, every student's stored times_in_group_of_three equals the
\* number of groups of exactly three in the class's sessions that contain
\* the student.
C27_CountsReflectHistory ==
    [][(CreateSession \/ SaveChanges) => CountsMatchHistory']_vars


----------------------------------------------------------------------------
(* Undo in the history view *)

\* C28: once a session is loaded in the history view, chips are dragged and
\* the changes are undone (nothing being saved in between), the record of
\* that session in the class's session list equals the record as it was
\* when it was loaded.
C28_UndoRestoresTheRecord ==
    [][UndoChanges => previous_sessions'[app.selected] = app.original_session]_vars


----------------------------------------------------------------------------
(* What the random source decides in pair mode *)

\* C29: in pair mode (more than two students present), whatever the random
\* source yields, the call returns the groups that the student list, the
\* history and the track preference determine, each with its members in the
\* order they determine: only the order of the groups in the list varies.
C29_OnlyTheOrderIsRandom ==
    (pc = "returned" /\ ~use_larger_groups /\ Len(alg.students) > 2) =>
        /\ Len(pairs) = Len(PairModeGroups(alg, track_preference))
        /\ Range(pairs) = Range(PairModeGroups(alg, track_preference))

\* an odd class with a history has returned its groups in another order than
\* the one they were built in
C29_Witness ==
    /\ pc = "returned"
    /\ ~use_larger_groups
    /\ Len(alg.students) = 5
    /\ previous_sessions # <<>>
    /\ pairs # PairModeGroups(alg, track_preference)


----------------------------------------------------------------------------
(* The groups of a saved session *)

\* no student id is in two groups of the record or twice in one, and the
\* record's id lists are the members of its present and of its absent groups
OneGroupEach(record) ==
    /\ \A g, h \in DOMAIN record.pairs :
         g # h => Range(record.pairs[g].student_ids)
                    \cap Range(record.pairs[h].student_ids) = {}
    /\ \A g \in DOMAIN record.pairs :
         Cardinality(Range(record.pairs[g].student_ids))
             = Len(record.pairs[g].student_ids)
    /\ record.present_student_ids = IdsFlagged(record.pairs, TRUE)
    /\ record.absent_student_ids = IdsFlagged(record.pairs, FALSE)

\* C30: the session record that create_session appends places each student
\* id in at most one group (the groups of the present and of the absent
\* students are pairwise disjoint), and its present and absent id lists are
\* the members of the groups flagged present and absent.
C30_EachStudentInOneGroup ==
    [][CreateSession => OneGroupEach(previous_sessions'[Len(previous_sessions')])]_vars

=============================================================================
